---- MODULE Spec2Model ----
(***************************************************************************)
(* A model of the OpenGL graphics device binding (opengl_device.cpp) and   *)
(* of the configuration helper GetSocketsFromConfig (testutil.cpp).        *)
(*                                                                         *)
(* Every operation of the device layer is a straight-line list of native   *)
(* calls, CHECK_GL_ERROR expansions and heap operations.  The model keeps  *)
(* that shape: an operation is a sequence of instructions, written in the  *)
(* order of the source, and Run executes the sequence on the native        *)
(* context, recording every native call it makes.                          *)
(***************************************************************************)
EXTENDS Integers, Sequences, FiniteSets, TLC

\* ------------------------------------------------------------------ bounds
\* Number of slots of VertexDeclaration::m_Streams.  The array is declared in
\* opengl_device.h; the model takes a small capacity.
StreamCapacity == 3
\* Largest integer the configuration store holds for a socket key.
MaxPort == 2
\* Most native textures alive at once (each render target owns one).
MaxTextures == 2
\* Most native programs alive at once.
MaxPrograms == 2
\* Most native buffers alive at once.
MaxBuffers == 2
\* Most vectors in one constant block.
MaxVectors == 2

\* ------------------------------------------------------------------ state
VARIABLES
    ndebug,     \* TRUE when the build defines NDEBUG: assert() expands to nothing
    aborted,    \* TRUE once an assert() has failed: the process is gone
    lastOp,     \* name of the operation that ran last
    ret,        \* what that operation returned to its caller
    element,    \* the caller's VertexElement array
    vd,         \* the VertexDeclaration the last NewVertexDeclaration returned
    made,       \* every VertexDeclaration NewVertexDeclaration has returned so far
    config,     \* the configuration store: key -> integer, for the keys it holds
    outPtrs,    \* the parameters of GetSocketsFromConfig the caller passes non-null
    out,        \* the caller's integers that were written: parameter -> value
    win32,      \* TRUE when the build defines _WIN32: extension entry points are loaded
    gdevice,    \* Device gdevice: the process-wide device
    glfw,       \* the windowing library: initialised or not, and its window
    ext,        \* TRUE once the extension entry points (glGenProgramsARB, ...) are set
    gl,         \* the native graphics context (see GLInit)
    heap,       \* the Texture and RenderTarget objects allocated with new
    calls,      \* the native calls and heap operations of the last operation, in order
    args,       \* the arguments of the last operation
    env,        \* what the world outside decided during it (see Env)
    pre,        \* gdevice, glfw, ext, gl and heap as they were when it was called
    lastSet     \* per program type, the program of the most recent Set*Program: <<p>>

vars == <<ndebug, aborted, lastOp, ret, element, vd, made, config, outPtrs, out,
          win32, gdevice, glfw, ext, gl, heap, calls, args, env, pre, lastSet>>
declVars == <<element, vd, made>>
configVars == <<config, outPtrs, out>>
deviceVars == <<win32, gdevice, glfw, ext, gl, heap, calls, args, env, pre, lastSet>>


\* --------------------------------------------------- the native context
\* glGetError's values: CHECK_GL_ERROR tests err != 0, and 0 is GL_NO_ERROR.
GL_NO_ERROR == "GL_NO_ERROR"
GL_INVALID_VALUE == "GL_INVALID_VALUE"
GL_INVALID_OPERATION == "GL_INVALID_OPERATION"

ProgramTypes == {"GL_VERTEX_PROGRAM_ARB", "GL_FRAGMENT_PROGRAM_ARB"}
BufferTargets == {"GL_ARRAY_BUFFER_ARB", "GL_ELEMENT_ARRAY_BUFFER_ARB"}

\* A context as glfwOpenWindow creates it: no objects, every binding 0.
\*   err             the error flag glGetError returns and clears
\*   enabled         the capabilities glEnable has set
\*   textures ...    the names glGen* has returned and glDelete* has not released
\*   bound*          the current bindings (0: the default object)
\*   texParameters   <<texture, pname, value>> set by glTexParameteri
\*   texImages       <<texture, level, internal format, width, height>>
\*   rbStorage       <<renderbuffer, width, height>>
\*   color, depth    <<framebuffer, attached texture / renderbuffer>>
\*   programTargets  <<program, type>>: the type a program was first bound to
\*   programStrings  the programs glProgramStringARB has loaded
\*   localParameters <<type, program, register, <<x, y, z, w>>>> set by
\*                   glProgramLocalParameter4fARB
\*   stores          <<buffer, size>> set by glBufferDataARB
\*   mapped          the buffers glMapBufferARB has mapped
\*   attribArrays    the attribute indices glEnableVertexAttribArray has enabled
\*   attribPointers  <<index, size, type, stride, offset, array buffer>> set by
\*                   glVertexAttribPointer
GLInit ==
    [err |-> GL_NO_ERROR,
     enabled |-> {},
     textures |-> {}, boundTexture |-> 0, texParameters |-> {}, texImages |-> {},
     framebuffers |-> {}, boundFramebuffer |-> 0,
     renderbuffers |-> {}, boundRenderbuffer |-> 0, rbStorage |-> {},
     color |-> {}, depth |-> {},
     programs |-> {}, boundProgram |-> [t \in ProgramTypes |-> 0], programTargets |-> {},
     programStrings |-> {}, localParameters |-> {},
     buffers |-> {}, boundBuffer |-> [t \in BufferTargets |-> 0], stores |-> {},
     mapped |-> {},
     attribArrays |-> {}, attribPointers |-> {}]

\* The windowing library before glfwInit and after glfwTerminate.
NoWindow == [opened |-> FALSE]
GlfwInit == [initialized |-> FALSE, window |-> NoWindow]

\* Device gdevice is a global: zero-initialised.
GDeviceInit == [m_DisplayWidth |-> 0, m_DisplayHeight |-> 0]

\* No Texture and no RenderTarget allocated.
HeapInit == [Texture |-> <<>>, RenderTarget |-> <<>>]

\* Return values.
Void == [type |-> "void"]
Value(type, v) == [type |-> type, value |-> v]

\* ------------------------------------------------------- instructions
\* A native call, CHECK_GL_ERROR, assert(cond), new / delete of a heap object
\* and an assignment to a member of gdevice.
Call(fn, a) == [op |-> "call", fn |-> fn, args |-> a]
CHECK_GL_ERROR == [op |-> "CHECK_GL_ERROR", fn |-> "CHECK_GL_ERROR", args |-> <<>>]
AssertThat(cond) == [op |-> "assert", fn |-> "assert", args |-> <<cond>>]
New(type, handle, object) == [op |-> "new", fn |-> type, args |-> <<handle, object>>]
Delete(type, handle) == [op |-> "delete", fn |-> type, args |-> <<handle>>]
Store(member, v) == [op |-> "store", fn |-> member, args |-> <<v>>]

\* The machine an operation runs on: the state it may change, the calls it has
\* made so far, whether an assert has failed, and the last native return value.
\* env holds what the world outside the program decides during the operation.
Machine(world) ==
    [gdevice |-> gdevice, glfw |-> glfw, ext |-> ext, gl |-> gl, heap |-> heap,
     calls |-> <<>>, aborted |-> FALSE, result |-> Void, env |-> world]

\* The world outside: whether the display configuration asked of glfwOpenWindow
\* is available, whether the program text given to glProgramStringARB is a valid
\* program, and whether the data store of a mapped buffer was corrupted while
\* it was mapped (glUnmapBufferARB then returns GL_FALSE).
Env(available, valid, corrupted) ==
    [available |-> available, valid |-> valid, corrupted |-> corrupted]
NoEnv == Env(TRUE, TRUE, FALSE)

\* A native call that generates an error is ignored and sets the error flag,
\* unless the flag is already set.
SetError(m, code) ==
    [m EXCEPT !.gl.err = IF @ = GL_NO_ERROR THEN code ELSE @]

\* glfwOpenWindow succeeds when the library is initialised, no window is open
\* yet and the display configuration is available.
OpenWindowSucceeds(g, available) == g.initialized /\ ~g.window.opened /\ available

\* The windowing library's calls.
NativeGLFW(m, fn, a) ==
    CASE fn = "glfwInit" ->
            [m EXCEPT !.glfw.initialized = TRUE, !.result = Value("int", 1)]
      [] fn = "glfwOpenWindow" ->
            IF OpenWindowSucceeds(m.glfw, m.env.available)
            THEN [m EXCEPT !.glfw.window =
                               [opened |-> TRUE, width |-> a[1], height |-> a[2],
                                title |-> "GLFW Window", swapInterval |-> 0],
                           !.gl = GLInit,
                           !.result = Value("int", 1)]
            ELSE [m EXCEPT !.result = Value("int", 0)]
      [] fn = "glfwTerminate" ->
            [m EXCEPT !.glfw = GlfwInit, !.gl = GLInit, !.result = Void]
      [] fn = "glfwSetWindowTitle" ->
            IF m.glfw.window.opened
            THEN [m EXCEPT !.glfw.window.title = a[1], !.result = Void]
            ELSE [m EXCEPT !.result = Void]
      [] fn = "glfwSwapInterval" ->
            IF m.glfw.window.opened
            THEN [m EXCEPT !.glfw.window.swapInterval = a[1], !.result = Void]
            ELSE [m EXCEPT !.result = Void]
      [] fn = "wglGetProcAddress" ->
            [m EXCEPT !.ext = TRUE, !.result = Void]
      [] OTHER -> [m EXCEPT !.result = Void]

\* The smallest name glGen* can return: a positive integer not in use.
FreshName(used) == CHOOSE n \in 1..(Cardinality(used) + 1) : n \notin used

\* Texture calls.  Every call acts on the texture bound to GL_TEXTURE_2D.
NativeTexture(m, fn, a) ==
    CASE fn = "glGenTextures" ->
            [m EXCEPT !.gl.textures = @ \cup {a[2]}]
      [] fn = "glBindTexture" ->
            [m EXCEPT !.gl.boundTexture = a[2]]
      [] fn = "glTexParameteri" ->
            [m EXCEPT !.gl.texParameters =
                {p \in @ : ~(p[1] = m.gl.boundTexture /\ p[2] = a[2])}
                \cup {<<m.gl.boundTexture, a[2], a[3]>>}]
      [] fn = "glTexImage2D" ->
            \* target, level, internal format, width, height, border, format, type, data
            [m EXCEPT !.gl.texImages =
                {p \in @ : ~(p[1] = m.gl.boundTexture /\ p[2] = a[2])}
                \cup {<<m.gl.boundTexture, a[2], a[7], a[4], a[5]>>}]
      [] fn = "glCompressedTexImage2D" ->
            \* target, level, internal format, width, height, border, size, data
            [m EXCEPT !.gl.texImages =
                {p \in @ : ~(p[1] = m.gl.boundTexture /\ p[2] = a[2])}
                \cup {<<m.gl.boundTexture, a[2], a[3], a[4], a[5]>>}]
      [] fn = "glDeleteTextures" ->
            \* the name is released; a binding to it reverts to 0 and it is
            \* detached from the bound framebuffer
            [m EXCEPT !.gl.textures = @ \ {a[2]},
                      !.gl.boundTexture = IF @ = a[2] THEN 0 ELSE @,
                      !.gl.texParameters = {p \in @ : p[1] # a[2]},
                      !.gl.texImages = {p \in @ : p[1] # a[2]},
                      !.gl.color = {p \in @ : ~(p[1] = m.gl.boundFramebuffer /\ p[2] = a[2])}]
      [] OTHER -> m

\* Framebuffer and renderbuffer calls.
NativeFramebuffer(m, fn, a) ==
    CASE fn = "glGenFramebuffers" ->
            [m EXCEPT !.gl.framebuffers = @ \cup {a[2]}]
      [] fn = "glBindFramebuffer" ->
            [m EXCEPT !.gl.boundFramebuffer = a[2]]
      [] fn = "glGenRenderbuffers" ->
            [m EXCEPT !.gl.renderbuffers = @ \cup {a[2]}]
      [] fn = "glBindRenderbuffer" ->
            [m EXCEPT !.gl.boundRenderbuffer = a[2]]
      [] fn = "glRenderbufferStorage" ->
            \* target, internal format, width, height: needs a bound renderbuffer
            IF m.gl.boundRenderbuffer = 0
            THEN SetError(m, GL_INVALID_OPERATION)
            ELSE [m EXCEPT !.gl.rbStorage =
                     {p \in @ : p[1] # m.gl.boundRenderbuffer}
                     \cup {<<m.gl.boundRenderbuffer, a[3], a[4]>>}]
      [] fn = "glFramebufferTexture2D" ->
            \* target, attachment, textarget, texture, level: attaches to the
            \* bound framebuffer; the default framebuffer takes no attachment
            IF m.gl.boundFramebuffer = 0
            THEN SetError(m, GL_INVALID_OPERATION)
            ELSE [m EXCEPT !.gl.color =
                     {p \in @ : p[1] # m.gl.boundFramebuffer}
                     \cup {<<m.gl.boundFramebuffer, a[4]>>}]
      [] fn = "glFramebufferRenderbuffer" ->
            \* target, attachment, renderbuffertarget, renderbuffer
            IF m.gl.boundFramebuffer = 0
            THEN SetError(m, GL_INVALID_OPERATION)
            ELSE [m EXCEPT !.gl.depth =
                     {p \in @ : p[1] # m.gl.boundFramebuffer}
                     \cup {<<m.gl.boundFramebuffer, a[4]>>}]
      [] fn = "glDeleteFramebuffers" ->
            [m EXCEPT !.gl.framebuffers = @ \ {a[2]},
                      !.gl.boundFramebuffer = IF @ = a[2] THEN 0 ELSE @,
                      !.gl.color = {p \in @ : p[1] # a[2]},
                      !.gl.depth = {p \in @ : p[1] # a[2]}]
      [] fn = "glDeleteRenderbuffers" ->
            [m EXCEPT !.gl.renderbuffers = @ \ {a[2]},
                      !.gl.boundRenderbuffer = IF @ = a[2] THEN 0 ELSE @,
                      !.gl.rbStorage = {p \in @ : p[1] # a[2]},
                      !.gl.depth = {p \in @ : ~(p[1] = m.gl.boundFramebuffer /\ p[2] = a[2])}]
      [] OTHER -> m

\* Program calls (ARB_vertex_program / ARB_fragment_program) and glEnable.
NativeProgram(m, fn, a) ==
    CASE fn = "glEnable" ->
            [m EXCEPT !.gl.enabled = @ \cup {a[1]}]
      [] fn = "glDisable" ->
            [m EXCEPT !.gl.enabled = @ \ {a[1]}]
      [] fn = "glGenProgramsARB" ->
            [m EXCEPT !.gl.programs = @ \cup {a[2]}]
      [] fn = "glBindProgramARB" ->
            [m EXCEPT !.gl.boundProgram[a[1]] = a[2],
                      !.gl.programTargets =
                          IF a[2] = 0 \/ (\E t \in ProgramTypes : <<a[2], t>> \in @)
                          THEN @ ELSE @ \cup {<<a[2], a[1]>>}]
      [] fn = "glProgramStringARB" ->
            \* target, format, length, string: a string that is no valid program
            \* is an error and leaves the program as it was
            IF m.env.valid
            THEN [m EXCEPT !.gl.programStrings = @ \cup {m.gl.boundProgram[a[1]]}]
            ELSE SetError(m, GL_INVALID_OPERATION)
      [] fn = "glProgramLocalParameter4fARB" ->
            \* target, index, x, y, z, w: a register of the program bound to the
            \* target; index is a GLuint, so a negative int is an index beyond
            \* every register file
            IF a[2] < 0
            THEN SetError(m, GL_INVALID_VALUE)
            ELSE [m EXCEPT !.gl.localParameters =
                     {p \in @ : ~(p[1] = a[1] /\ p[2] = m.gl.boundProgram[a[1]]
                                                /\ p[3] = a[2])}
                     \cup {<<a[1], m.gl.boundProgram[a[1]], a[2],
                             <<a[3], a[4], a[5], a[6]>>>>}]
      [] fn = "glDeleteProgramsARB" ->
            \* a deleted program that is bound is replaced by the default program
            [m EXCEPT !.gl.programs = @ \ {a[2]},
                      !.gl.programStrings = @ \ {a[2]},
                      !.gl.programTargets = {p \in @ : p[1] # a[2]},
                      !.gl.localParameters = {p \in @ : p[2] # a[2]},
                      !.gl.boundProgram = [t \in ProgramTypes |->
                                              IF @[t] = a[2] THEN 0 ELSE @[t]]]
      [] OTHER -> m

\* Buffer object calls (ARB_vertex_buffer_object).
NativeBuffer(m, fn, a) ==
    LET b == m.gl.boundBuffer[a[1]] IN
    CASE fn = "glBindBufferARB" ->
            [m EXCEPT !.gl.boundBuffer[a[1]] = a[2]]
      [] fn = "glBufferDataARB" ->
            \* target, size, data, usage: a new data store; a mapping is dropped
            IF b = 0
            THEN SetError(m, GL_INVALID_OPERATION)
            ELSE [m EXCEPT !.gl.stores = {p \in @ : p[1] # b} \cup {<<b, a[2]>>},
                           !.gl.mapped = @ \ {b}]
      [] fn = "glBufferSubDataARB" ->
            \* target, offset, size, data: inside the data store of an unmapped buffer
            IF b = 0 \/ b \in m.gl.mapped
                     \/ ~(\E p \in m.gl.stores : p[1] = b /\ a[2] + a[3] <= p[2])
            THEN SetError(m, GL_INVALID_OPERATION)
            ELSE m
      [] fn = "glMapBufferARB" ->
            \* target, access: NULL and an error when the buffer is already mapped
            IF b = 0 \/ b \in m.gl.mapped
            THEN [SetError(m, GL_INVALID_OPERATION) EXCEPT !.result = Value("pointer", 0)]
            ELSE [m EXCEPT !.gl.mapped = @ \cup {b}, !.result = Value("pointer", b)]
      [] fn = "glUnmapBufferARB" ->
            \* target: GL_FALSE and an error when the buffer is not mapped;
            \* GL_FALSE and no error when its data store was corrupted meanwhile
            IF b = 0 \/ b \notin m.gl.mapped
            THEN [SetError(m, GL_INVALID_OPERATION) EXCEPT !.result = Value("GLboolean", FALSE)]
            ELSE [m EXCEPT !.gl.mapped = @ \ {b},
                           !.result = Value("GLboolean", ~m.env.corrupted)]
      [] OTHER -> m

\* Generic vertex attribute arrays.
NativeVertexAttrib(m, fn, a) ==
    CASE fn = "glEnableVertexAttribArray" ->
            [m EXCEPT !.gl.attribArrays = @ \cup {a[1]}]
      [] fn = "glDisableVertexAttribArray" ->
            [m EXCEPT !.gl.attribArrays = @ \ {a[1]}]
      [] fn = "glVertexAttribPointer" ->
            \* index, size, type, normalized, stride, pointer: the pointer is an
            \* offset into the buffer bound to GL_ARRAY_BUFFER at the call
            [m EXCEPT !.gl.attribPointers =
                {p \in @ : p[1] # a[1]}
                \cup {<<a[1], a[2], a[3], a[5], a[6], m.gl.boundBuffer["GL_ARRAY_BUFFER_ARB"]>>}]
      [] OTHER -> m

GLFWCalls ==
    {"glfwInit", "glfwOpenWindow", "glfwTerminate", "glfwSetWindowTitle",
     "glfwSwapInterval", "glfwSwapBuffers", "wglGetProcAddress"}
TextureCalls ==
    {"glGenTextures", "glBindTexture", "glTexParameteri", "glTexImage2D",
     "glCompressedTexImage2D", "glDeleteTextures"}
FramebufferCalls ==
    {"glGenFramebuffers", "glBindFramebuffer", "glGenRenderbuffers", "glBindRenderbuffer",
     "glRenderbufferStorage", "glFramebufferTexture2D", "glFramebufferRenderbuffer",
     "glDeleteFramebuffers", "glDeleteRenderbuffers"}
ProgramCalls ==
    {"glEnable", "glDisable", "glGenProgramsARB", "glBindProgramARB",
     "glProgramStringARB", "glDeleteProgramsARB", "glProgramLocalParameter4fARB"}
BufferCalls ==
    {"glGenBuffersARB", "glDeleteBuffersARB", "glBindBufferARB", "glBufferDataARB",
     "glBufferSubDataARB", "glMapBufferARB", "glUnmapBufferARB"}
VertexAttribCalls ==
    {"glEnableVertexAttribArray", "glDisableVertexAttribArray", "glVertexAttribPointer"}

\* glGenBuffersARB and glDeleteBuffersARB take no target.
NativeBufferName(m, fn, a) ==
    CASE fn = "glGenBuffersARB" ->
            [m EXCEPT !.gl.buffers = @ \cup {a[2]}]
      [] fn = "glDeleteBuffersARB" ->
            [m EXCEPT !.gl.buffers = @ \ {a[2]},
                      !.gl.stores = {p \in @ : p[1] # a[2]},
                      !.gl.mapped = @ \ {a[2]},
                      !.gl.boundBuffer = [t \in BufferTargets |->
                                             IF @[t] = a[2] THEN 0 ELSE @[t]]]

\* One native call: its effect on the machine.  glGetError is made by
\* CHECK_GL_ERROR; calls that only read or draw change nothing here.
Native(m, fn, a) ==
    CASE fn \in GLFWCalls -> NativeGLFW(m, fn, a)
      [] fn \in TextureCalls -> NativeTexture(m, fn, a)
      [] fn \in FramebufferCalls -> NativeFramebuffer(m, fn, a)
      [] fn \in ProgramCalls -> NativeProgram(m, fn, a)
      [] fn \in {"glGenBuffersARB", "glDeleteBuffersARB"} -> NativeBufferName(m, fn, a)
      [] fn \in BufferCalls -> NativeBuffer(m, fn, a)
      [] fn \in VertexAttribCalls -> NativeVertexAttrib(m, fn, a)
      [] OTHER -> m

\* CHECK_GL_ERROR: glGetError returns the flag and clears it; a flag that is
\* not 0 is printed and assert(0) ends the process unless NDEBUG is defined.
CheckGLError(m) ==
    LET err == m.gl.err
        asked == [m EXCEPT !.gl.err = GL_NO_ERROR,
                           !.calls = Append(@, [fn |-> "glGetError", args |-> <<>>])] IN
    IF err = GL_NO_ERROR THEN asked
    ELSE [asked EXCEPT !.calls = Append(@, [fn |-> "printf", args |-> <<"gl error", err>>]),
                       !.aborted = ~ndebug]

\* One instruction.
Step(m, ins) ==
    CASE ins.op = "call" ->
            [Native(m, ins.fn, ins.args) EXCEPT
                !.calls = Append(@, [fn |-> ins.fn, args |-> ins.args])]
      [] ins.op = "CHECK_GL_ERROR" -> CheckGLError(m)
      [] ins.op = "assert" ->
            IF ins.args[1] \/ ndebug THEN m ELSE [m EXCEPT !.aborted = TRUE]
      [] ins.op = "new" ->
            [m EXCEPT
                !.heap[ins.fn] = [h \in (DOMAIN @) \cup {ins.args[1]} |->
                                     IF h = ins.args[1] THEN ins.args[2] ELSE @[h]],
                !.calls = Append(@, [fn |-> "new", args |-> <<ins.fn, ins.args[1]>>])]
      [] ins.op = "delete" ->
            [m EXCEPT
                !.heap[ins.fn] = [h \in (DOMAIN @) \ {ins.args[1]} |-> @[h]],
                !.calls = Append(@, [fn |-> "delete", args |-> <<ins.fn, ins.args[1]>>])]
      [] ins.op = "store" ->
            [m EXCEPT !.gdevice[ins.fn] = ins.args[1]]

\* The instructions in order; nothing runs after a failed assert.
RECURSIVE Run(_, _)
Run(code, m) ==
    IF Len(code) = 0 \/ m.aborted THEN m
    ELSE Run(Tail(code), Step(m, Head(code)))

\* The operations that bind a program for drawing, and the type each binds.
SetOperations ==
    [SetVertexProgram |-> "GL_VERTEX_PROGRAM_ARB",
     SetFragmentProgram |-> "GL_FRAGMENT_PROGRAM_ARB"]

\* The state an operation leaves: what Run produced, the operation's name and
\* arguments, its return value (none when an assert ended the process), and
\* the state it was called in.
Finish(name, a, m, value) ==
    /\ gdevice' = m.gdevice
    /\ glfw' = m.glfw
    /\ ext' = m.ext
    /\ gl' = m.gl
    /\ heap' = m.heap
    /\ calls' = m.calls
    /\ aborted' = m.aborted
    /\ lastOp' = name
    /\ args' = a
    /\ env' = m.env
    /\ ret' = IF m.aborted THEN Void ELSE value
    /\ pre' = [gdevice |-> gdevice, glfw |-> glfw, ext |-> ext, gl |-> gl, heap |-> heap]
    /\ lastSet' = IF name \in DOMAIN SetOperations
                  THEN [lastSet EXCEPT ![SetOperations[name]] = <<a>>]
                  ELSE lastSet
    /\ UNCHANGED <<ndebug, win32, declVars, configVars>>

\* ------------------------------------------------------------ the device
\* The CreateDeviceParams the callers pass.
DisplaySizes == {<<640, 480>>, <<800, 600>>}
AppTitles == {"app", "game"}
CreateDeviceParams ==
    {[m_DisplayWidth |-> d[1], m_DisplayHeight |-> d[2], m_AppTitle |-> t,
      m_Fullscreen |-> FALSE, m_PrintDeviceInfo |-> p] :
        d \in DisplaySizes, t \in AppTitles, p \in BOOLEAN}

NullDevice == Value("HDevice", "NULL")
TheDevice == Value("HDevice", "&gdevice")

\* if (params->m_PrintDeviceInfo): four glGetString queries, printed.
PrintDeviceInfoCode(params) ==
    IF params.m_PrintDeviceInfo
    THEN << Call("glGetString", <<"GL_RENDERER">>), Call("glGetString", <<"GL_VERSION">>),
            Call("glGetString", <<"GL_VENDOR">>), Call("glGetString", <<"GL_EXTENSIONS">>) >>
    ELSE << >>

\* #if defined (_WIN32): the extension entry points, glGenProgramsARB to
\* glUnmapBufferARB, are fetched with wglGetProcAddress (one call stands for all).
LoadExtensionsCode ==
    IF win32
    THEN << Call("wglGetProcAddress", <<"glGenProgramsARB .. glUnmapBufferARB">>) >>
    ELSE << >>

\* NewDevice with the display size recorded before the window is opened.
NewDeviceCodeStoreFirst(params, opens) ==
    << AssertThat(TRUE),
       Call("glfwInit", << >>),
       Store("m_DisplayWidth", params.m_DisplayWidth),
       Store("m_DisplayHeight", params.m_DisplayHeight),
       Call("glfwOpenWindow", <<params.m_DisplayWidth, params.m_DisplayHeight,
                                8, 8, 8, 8, 32, 0, "GLFW_WINDOW">>) >>
    \o IF ~opens
       THEN << Call("glfwTerminate", << >>) >>
       ELSE << Call("glfwSetWindowTitle", <<params.m_AppTitle>>),
               Call("glfwSwapInterval", <<1>>),
               CHECK_GL_ERROR >>
            \o PrintDeviceInfoCode(params)
            \o LoadExtensionsCode

\* The body of NewDevice; opens is what glfwOpenWindow returns.
NewDeviceCode(params, opens) ==
    << AssertThat(TRUE),
       Call("glfwInit", << >>),
       Call("glfwOpenWindow", <<params.m_DisplayWidth, params.m_DisplayHeight,
                                8, 8, 8, 8, 32, 0, "GLFW_WINDOW">>) >>
    \o IF ~opens
       THEN << Call("glfwTerminate", << >>) >>
       ELSE << Call("glfwSetWindowTitle", <<params.m_AppTitle>>),
               Call("glfwSwapInterval", <<1>>),
               CHECK_GL_ERROR,
               Store("m_DisplayWidth", params.m_DisplayWidth),
               Store("m_DisplayHeight", params.m_DisplayHeight) >>
            \o PrintDeviceInfoCode(params)
            \o LoadExtensionsCode

NewDevice(params, available) ==
    /\ ~aborted
    /\ LET opens == OpenWindowSucceeds([glfw EXCEPT !.initialized = TRUE], available)
           m == Run(NewDeviceCode(params, opens), Machine(Env(available, TRUE, FALSE))) IN
       Finish("NewDevice", params, m, IF opens THEN TheDevice ELSE NullDevice)

DeleteDevice ==
    /\ ~aborted
    /\ Finish("DeleteDevice", TheDevice,
              Run(<< Call("glfwTerminate", << >>) >>, Machine(NoEnv)), Void)

GetWindowWidth ==
    /\ ~aborted
    /\ Finish("GetWindowWidth", << >>, Machine(NoEnv),
              Value("uint32_t", gdevice.m_DisplayWidth))

GetWindowHeight ==
    /\ ~aborted
    /\ Finish("GetWindowHeight", << >>, Machine(NoEnv),
              Value("uint32_t", gdevice.m_DisplayHeight))

\* ----------------------------------------------- textures, render targets
\* HTexture NewTexture(): the native name t is generated and wrapped in the
\* Texture object at handle h.
NewTextureCode(t, h) ==
    << Call("glGenTextures", <<1, t>>),
       CHECK_GL_ERROR,
       Call("glBindTexture", <<"GL_TEXTURE_2D", t>>),
       CHECK_GL_ERROR,
       Call("glTexParameteri", <<"GL_TEXTURE_2D", "GL_GENERATE_MIPMAP", "GL_FALSE">>),
       CHECK_GL_ERROR,
       Call("glTexParameteri", <<"GL_TEXTURE_2D", "GL_TEXTURE_MIN_FILTER", "GL_LINEAR">>),
       CHECK_GL_ERROR,
       Call("glTexParameteri", <<"GL_TEXTURE_2D", "GL_TEXTURE_MAG_FILTER", "GL_LINEAR">>),
       CHECK_GL_ERROR,
       New("Texture", h, [m_Texture |-> t]) >>

\* The TextureFormat tags SetTextureData names.
UncompressedFormats ==
    {"TEXTURE_FORMAT_LUMINANCE", "TEXTURE_FORMAT_RGB", "TEXTURE_FORMAT_RGBA"}
CompressedFormats ==
    {"TEXTURE_FORMAT_RGB_DXT1", "TEXTURE_FORMAT_RGBA_DXT1", "TEXTURE_FORMAT_RGBA_DXT3",
     "TEXTURE_FORMAT_RGBA_DXT5"}

\* The first switch of SetTextureData: gl_format.
GLFormat(texture_format) ==
    CASE texture_format = "TEXTURE_FORMAT_LUMINANCE" -> "GL_LUMINANCE"
      [] texture_format = "TEXTURE_FORMAT_RGB" -> "GL_RGB"
      [] texture_format = "TEXTURE_FORMAT_RGBA" -> "GL_RGBA"
      [] texture_format = "TEXTURE_FORMAT_RGB_DXT1" -> "GL_COMPRESSED_RGB_S3TC_DXT1_EXT"
      [] texture_format = "TEXTURE_FORMAT_RGBA_DXT1" -> "GL_COMPRESSED_RGBA_S3TC_DXT1_EXT"
      [] texture_format = "TEXTURE_FORMAT_RGBA_DXT3" -> "GL_COMPRESSED_RGBA_S3TC_DXT3_EXT"
      [] texture_format = "TEXTURE_FORMAT_RGBA_DXT5" -> "GL_COMPRESSED_RGBA_S3TC_DXT5_EXT"
      [] OTHER -> "indeterminate"

\* An internal_format that is 4 whatever the format tag.
InternalFormatAlwaysFour(texture_format) == 4

\* The first switch of SetTextureData: internal_format.
InternalFormat(texture_format) ==
    CASE texture_format = "TEXTURE_FORMAT_LUMINANCE" -> 1
      [] texture_format = "TEXTURE_FORMAT_RGB" -> 3
      [] texture_format = "TEXTURE_FORMAT_RGBA" -> 4

\* SetTextureData on the native texture t.  width and height are uint16_t.
SetTextureDataCode(t, mip_map, width, height, texture_format, data, data_size) ==
    << Call("glBindTexture", <<"GL_TEXTURE_2D", t>>),
       CHECK_GL_ERROR >>
    \o (CASE texture_format = "TEXTURE_FORMAT_RGBA_DXT5" -> << CHECK_GL_ERROR >>
          [] texture_format \in UncompressedFormats \cup CompressedFormats -> << >>
          [] OTHER -> << AssertThat(FALSE) >>)
    \o (CASE texture_format \in UncompressedFormats ->
                << Call("glTexImage2D",
                        <<"GL_TEXTURE_2D", mip_map, InternalFormat(texture_format),
                          width % 65536, height % 65536, 0, GLFormat(texture_format),
                          "GL_UNSIGNED_BYTE", data>>),
                   CHECK_GL_ERROR >>
          [] texture_format \in CompressedFormats ->
                << Call("glCompressedTexImage2D",
                        <<"GL_TEXTURE_2D", mip_map, GLFormat(texture_format),
                          width % 65536, height % 65536, 0, data_size, data>>),
                   CHECK_GL_ERROR >>
          [] OTHER -> << AssertThat(FALSE) >>)

\* DeleteTexture on the Texture at handle h, which wraps the native name t.
DeleteTextureCode(h, t) ==
    << AssertThat(h # 0),
       Call("glDeleteTextures", <<1, t>>),
       Delete("Texture", h) >>

\* SetTexture.
SetTextureCode(h, t) ==
    << AssertThat(TRUE),
       AssertThat(h # 0),
       Call("glEnable", <<"GL_TEXTURE_2D">>),
       CHECK_GL_ERROR,
       Call("glBindTexture", <<"GL_TEXTURE_2D", t>>),
       CHECK_GL_ERROR,
       Call("glTexParameteri", <<"GL_TEXTURE_2D", "GL_TEXTURE_MIN_FILTER", "GL_LINEAR">>),
       CHECK_GL_ERROR,
       Call("glTexParameteri", <<"GL_TEXTURE_2D", "GL_TEXTURE_MAG_FILTER", "GL_LINEAR">>),
       CHECK_GL_ERROR >>

\* NewRenderTarget unbinding before it attaches.
NewRenderTargetCodeUnbindFirst(rt, h, t, f, r, width, height, format) ==
    << New("RenderTarget", rt, [m_Texture |-> h, m_FboId |-> f, m_RboId |-> r]) >>
    \o NewTextureCode(t, h)
    \o SetTextureDataCode(t, 0, width, height, "TEXTURE_FORMAT_RGBA", "NULL", 0)
    \o << Call("glGenFramebuffers", <<1, f>>),
          CHECK_GL_ERROR,
          Call("glBindFramebuffer", <<"GL_FRAMEBUFFER_EXT", f>>),
          CHECK_GL_ERROR,
          Call("glGenRenderbuffers", <<1, r>>),
          CHECK_GL_ERROR,
          Call("glBindRenderbuffer", <<"GL_RENDERBUFFER_EXT", r>>),
          CHECK_GL_ERROR,
          Call("glRenderbufferStorage",
               <<"GL_RENDERBUFFER_EXT", "GL_DEPTH_COMPONENT", width, height>>),
          CHECK_GL_ERROR,
          Call("glBindRenderbuffer", <<"GL_RENDERBUFFER_EXT", 0>>),
          CHECK_GL_ERROR,
          Call("glBindFramebuffer", <<"GL_FRAMEBUFFER_EXT", 0>>),
          CHECK_GL_ERROR,
          Call("glFramebufferTexture2D",
               <<"GL_FRAMEBUFFER_EXT", "GL_COLOR_ATTACHMENT0_EXT", "GL_TEXTURE_2D", t, 0>>),
          CHECK_GL_ERROR,
          Call("glFramebufferRenderbuffer",
               <<"GL_FRAMEBUFFER_EXT", "GL_DEPTH_ATTACHMENT_EXT", "GL_RENDERBUFFER_EXT", r>>),
          CHECK_GL_ERROR,
          Call("glBindRenderbuffer", <<"GL_RENDERBUFFER_EXT", 0>>),
          CHECK_GL_ERROR >>

\* NewRenderTarget(width, height, format): the RenderTarget at handle rt, its
\* Texture at handle h wrapping the native texture t, and the native
\* framebuffer f and renderbuffer r.  The texture is always given the format
\* TEXTURE_FORMAT_RGBA; the format parameter is not read.
NewRenderTargetCode(rt, h, t, f, r, width, height, format) ==
    << New("RenderTarget", rt, [m_Texture |-> h, m_FboId |-> f, m_RboId |-> r]) >>
    \o NewTextureCode(t, h)
    \o SetTextureDataCode(t, 0, width, height, "TEXTURE_FORMAT_RGBA", "NULL", 0)
    \o << Call("glGenFramebuffers", <<1, f>>),
          CHECK_GL_ERROR,
          Call("glBindFramebuffer", <<"GL_FRAMEBUFFER_EXT", f>>),
          CHECK_GL_ERROR,
          Call("glGenRenderbuffers", <<1, r>>),
          CHECK_GL_ERROR,
          Call("glBindRenderbuffer", <<"GL_RENDERBUFFER_EXT", r>>),
          CHECK_GL_ERROR,
          Call("glRenderbufferStorage",
               <<"GL_RENDERBUFFER_EXT", "GL_DEPTH_COMPONENT", width, height>>),
          CHECK_GL_ERROR,
          Call("glBindRenderbuffer", <<"GL_RENDERBUFFER_EXT", 0>>),
          CHECK_GL_ERROR,
          Call("glFramebufferTexture2D",
               <<"GL_FRAMEBUFFER_EXT", "GL_COLOR_ATTACHMENT0_EXT", "GL_TEXTURE_2D", t, 0>>),
          CHECK_GL_ERROR,
          Call("glFramebufferRenderbuffer",
               <<"GL_FRAMEBUFFER_EXT", "GL_DEPTH_ATTACHMENT_EXT", "GL_RENDERBUFFER_EXT", r>>),
          CHECK_GL_ERROR,
          Call("glBindFramebuffer", <<"GL_FRAMEBUFFER_EXT", 0>>),
          CHECK_GL_ERROR,
          Call("glBindRenderbuffer", <<"GL_RENDERBUFFER_EXT", 0>>),
          CHECK_GL_ERROR >>

\* DeleteRenderTarget that forgets the renderbuffer.
DeleteRenderTargetCodeLeak(rt, target, t) ==
    << Call("glDeleteFramebuffers", <<1, target.m_FboId>>) >>
    \o DeleteTextureCode(target.m_Texture, t)
    \o << Delete("RenderTarget", rt) >>

\* DeleteRenderTarget that releases the texture first.
DeleteRenderTargetCodeTextureFirst(rt, target, t) ==
    DeleteTextureCode(target.m_Texture, t)
    \o << Call("glDeleteFramebuffers", <<1, target.m_FboId>>),
          Call("glDeleteRenderbuffers", <<1, target.m_RboId>>),
          Delete("RenderTarget", rt) >>

\* DeleteRenderTarget on the RenderTarget target at handle rt, whose Texture
\* wraps the native name t.
DeleteRenderTargetCode(rt, target, t) ==
    << Call("glDeleteFramebuffers", <<1, target.m_FboId>>),
       Call("glDeleteRenderbuffers", <<1, target.m_RboId>>) >>
    \o DeleteTextureCode(target.m_Texture, t)
    \o << Delete("RenderTarget", rt) >>

\* The callers' render target sizes and formats.
RenderTargetSizes == {<<64, 32>>, <<70000, 32>>}
RenderTargetFormats == {"TEXTURE_FORMAT_RGBA", "TEXTURE_FORMAT_LUMINANCE"}

\* The Texture objects a RenderTarget owns.
OwnedTextures == {heap.RenderTarget[rt].m_Texture : rt \in DOMAIN heap.RenderTarget}

NewTexture ==
    /\ ~aborted
    /\ Cardinality(gl.textures) < MaxTextures
    /\ LET t == FreshName(gl.textures)
           h == FreshName(DOMAIN heap.Texture) IN
       Finish("NewTexture", << >>, Run(NewTextureCode(t, h), Machine(NoEnv)),
              Value("HTexture", h))

DeleteTexture(h) ==
    /\ ~aborted
    /\ h \in DOMAIN heap.Texture
    /\ h \notin OwnedTextures
    /\ Finish("DeleteTexture", h,
              Run(DeleteTextureCode(h, heap.Texture[h].m_Texture), Machine(NoEnv)), Void)

SetTexture(h) ==
    /\ ~aborted
    /\ h \in DOMAIN heap.Texture
    /\ Finish("SetTexture", h,
              Run(SetTextureCode(h, heap.Texture[h].m_Texture), Machine(NoEnv)), Void)

\* The formats, mip levels, sizes and data sizes the callers pass to
\* SetTextureData; TEXTURE_FORMAT_OTHER is a tag SetTextureData does not name.
TextureFormats == UncompressedFormats \cup CompressedFormats \cup {"TEXTURE_FORMAT_OTHER"}
TextureSizes == {<<64, 32>>}
DataSizes == {1024}

SetTextureData(h, mip_map, size, texture_format, data_size) ==
    /\ ~aborted
    /\ h \in DOMAIN heap.Texture
    /\ Finish("SetTextureData",
              [texture |-> h, mip_map |-> mip_map, width |-> size[1], height |-> size[2],
               texture_format |-> texture_format, data_size |-> data_size],
              Run(SetTextureDataCode(heap.Texture[h].m_Texture, mip_map, size[1], size[2],
                                     texture_format, "data", data_size),
                  Machine(NoEnv)),
              Void)

NewRenderTarget(size, format) ==
    /\ ~aborted
    /\ Cardinality(gl.textures) < MaxTextures
    /\ LET rt == FreshName(DOMAIN heap.RenderTarget)
           h == FreshName(DOMAIN heap.Texture)
           t == FreshName(gl.textures)
           f == FreshName(gl.framebuffers)
           r == FreshName(gl.renderbuffers) IN
       Finish("NewRenderTarget", [width |-> size[1], height |-> size[2], format |-> format],
              Run(NewRenderTargetCode(rt, h, t, f, r, size[1], size[2], format),
                  Machine(NoEnv)),
              Value("HRenderTarget", rt))

DeleteRenderTarget(rt) ==
    /\ ~aborted
    /\ rt \in DOMAIN heap.RenderTarget
    /\ LET target == heap.RenderTarget[rt] IN
       Finish("DeleteRenderTarget", rt,
              Run(DeleteRenderTargetCode(rt, target, heap.Texture[target.m_Texture].m_Texture),
                  Machine(NoEnv)),
              Void)

EnableRenderTarget(rt) ==
    /\ ~aborted
    /\ rt \in DOMAIN heap.RenderTarget
    /\ Finish("EnableRenderTarget", rt,
              Run(<< Call("glBindFramebuffer",
                          <<"GL_FRAMEBUFFER_EXT", heap.RenderTarget[rt].m_FboId>>) >>,
                  Machine(NoEnv)),
              Void)

DisableRenderTarget(rt) ==
    /\ ~aborted
    /\ rt \in DOMAIN heap.RenderTarget
    /\ Finish("DisableRenderTarget", rt,
              Run(<< Call("glBindFramebuffer", <<"GL_FRAMEBUFFER_EXT", 0>>) >>,
                  Machine(NoEnv)),
              Void)

GetRenderTargetTexture(rt) ==
    /\ ~aborted
    /\ rt \in DOMAIN heap.RenderTarget
    /\ Finish("GetRenderTargetTexture", rt, Machine(NoEnv),
              Value("HTexture", heap.RenderTarget[rt].m_Texture))

\* ---------------------------------------------------------------- programs
\* CreateProgram that loads the string without binding the new program.
CreateProgramCodeNoBind(type, shader, program, program_size) ==
    << Call("glEnable", <<type>>),
       Call("glGenProgramsARB", <<1, shader>>),
       CHECK_GL_ERROR,
       Call("glProgramStringARB", <<type, "GL_PROGRAM_FORMAT_ASCII_ARB", program_size, program>>),
       CHECK_GL_ERROR,
       Call("glDisable", <<type>>),
       CHECK_GL_ERROR >>

\* CreateProgram(type, program, program_size); shader is the name
\* glGenProgramsARB returns.
CreateProgramCode(type, shader, program, program_size) ==
    << Call("glEnable", <<type>>),
       Call("glGenProgramsARB", <<1, shader>>),
       CHECK_GL_ERROR,
       Call("glBindProgramARB", <<type, shader>>),
       CHECK_GL_ERROR,
       Call("glProgramStringARB", <<type, "GL_PROGRAM_FORMAT_ASCII_ARB", program_size, program>>),
       CHECK_GL_ERROR,
       Call("glDisable", <<type>>),
       CHECK_GL_ERROR >>

\* NewVertexProgram and NewFragmentProgram.
NewProgramCode(type, shader, program, program_size) ==
    << AssertThat(program # "NULL") >> \o CreateProgramCode(type, shader, program, program_size)

\* DeleteVertexProgram and DeleteFragmentProgram.
DeleteProgramCode(program) ==
    << AssertThat(program # 0),
       Call("glDeleteProgramsARB", <<1, program>>),
       CHECK_GL_ERROR >>

\* SetProgram(type, program).
SetProgramCode(type, program) ==
    << Call("glEnable", <<type>>),
       CHECK_GL_ERROR,
       Call("glBindProgramARB", <<type, program>>),
       CHECK_GL_ERROR >>

\* SetVertexProgram and SetFragmentProgram; the context is the device's.
SetTypedProgramCode(type, program) ==
    << AssertThat(TRUE) >> \o SetProgramCode(type, program)

\* The program texts the callers pass.
ProgramTexts == {"!!ARBvp1.0", "!!ARBfp1.0"}

\* The live programs created for the given type.
ProgramsOf(type) == {p \in gl.programs : <<p, type>> \in gl.programTargets}

\* What NewVertexProgram and NewFragmentProgram leave.
NewProgramRun(type, shader, program, valid) ==
    Run(NewProgramCode(type, shader, program, Len(program)), Machine(Env(TRUE, valid, FALSE)))

NewVertexProgram(program, valid) ==
    /\ ~aborted
    /\ Cardinality(gl.programs) < MaxPrograms
    /\ LET shader == FreshName(gl.programs) IN
       Finish("NewVertexProgram", [program |-> program, program_size |-> Len(program)],
              NewProgramRun("GL_VERTEX_PROGRAM_ARB", shader, program, valid),
              Value("HVertexProgram", shader))

NewFragmentProgram(program, valid) ==
    /\ ~aborted
    /\ Cardinality(gl.programs) < MaxPrograms
    /\ LET shader == FreshName(gl.programs) IN
       Finish("NewFragmentProgram", [program |-> program, program_size |-> Len(program)],
              NewProgramRun("GL_FRAGMENT_PROGRAM_ARB", shader, program, valid),
              Value("HFragmentProgram", shader))

DeleteVertexProgram(program) ==
    /\ ~aborted
    /\ program \in ProgramsOf("GL_VERTEX_PROGRAM_ARB")
    /\ Finish("DeleteVertexProgram", program,
              Run(DeleteProgramCode(program), Machine(NoEnv)), Void)

DeleteFragmentProgram(program) ==
    /\ ~aborted
    /\ program \in ProgramsOf("GL_FRAGMENT_PROGRAM_ARB")
    /\ Finish("DeleteFragmentProgram", program,
              Run(DeleteProgramCode(program), Machine(NoEnv)), Void)

SetVertexProgram(program) ==
    /\ ~aborted
    /\ program \in ProgramsOf("GL_VERTEX_PROGRAM_ARB") \cup {0}
    /\ Finish("SetVertexProgram", program,
              Run(SetTypedProgramCode("GL_VERTEX_PROGRAM_ARB", program), Machine(NoEnv)), Void)

SetFragmentProgram(program) ==
    /\ ~aborted
    /\ program \in ProgramsOf("GL_FRAGMENT_PROGRAM_ARB") \cup {0}
    /\ Finish("SetFragmentProgram", program,
              Run(SetTypedProgramCode("GL_FRAGMENT_PROGRAM_ARB", program), Machine(NoEnv)), Void)

\* --------------------------------------------------------- program constants
\* The loop of SetProgramConstantBlock reading every vector from the start of
\* the data.
RECURSIVE ConstantLoopCodeSameVector(_, _, _, _, _)
ConstantLoopCodeSameVector(type, f, base_register, num_vectors, i) ==
    IF i >= num_vectors THEN << >>
    ELSE << Call("glProgramLocalParameter4fARB",
                 <<type, base_register + i, f[1], f[2], f[3], f[4]>>),
            CHECK_GL_ERROR >>
         \o ConstantLoopCodeSameVector(type, f, base_register, num_vectors, i + 1)

\* for (int i=0; i<num_vectors; i++, reg+=4), from i on; reg is 4 * i and the
\* sequence f holds f[0] at position 1.
RECURSIVE ConstantLoopCode(_, _, _, _, _)
ConstantLoopCode(type, f, base_register, num_vectors, i) ==
    IF i >= num_vectors THEN << >>
    ELSE << Call("glProgramLocalParameter4fARB",
                 <<type, base_register + i,
                   f[4 * i + 1], f[4 * i + 2], f[4 * i + 3], f[4 * i + 4]>>),
            CHECK_GL_ERROR >>
         \o ConstantLoopCode(type, f, base_register, num_vectors, i + 1)

\* SetProgramConstantBlock(context, type, data, base_register, num_vectors);
\* context and data are not null.
SetProgramConstantBlockCode(type, data, base_register, num_vectors) ==
    << AssertThat(TRUE),
       AssertThat(TRUE),
       AssertThat(base_register >= 0),
       AssertThat(num_vectors >= 0) >>
    \o ConstantLoopCode(type, data, base_register, num_vectors, 0)

\* SetFragmentConstant, SetVertexConstantBlock and SetFragmentConstantBlock:
\* assert(context), the block, and one more CHECK_GL_ERROR.
SetConstantCode(type, data, base_register, num_vectors) ==
    << AssertThat(TRUE) >>
    \o SetProgramConstantBlockCode(type, data, base_register, num_vectors)
    \o << CHECK_GL_ERROR >>

\* The callers' data (floats, MaxVectors vectors of four), base registers and
\* vector counts.
ConstantData == {[k \in 1..(4 * MaxVectors) |-> 10 * k]}
BaseRegisters == {-1, 0, 1}
VectorCounts == -1..MaxVectors

SetVertexConstantBlock(data, base_register, num_vectors) ==
    /\ ~aborted
    /\ Finish("SetVertexConstantBlock",
              [data |-> data, base_register |-> base_register, num_vectors |-> num_vectors],
              Run(SetConstantCode("GL_VERTEX_PROGRAM_ARB", data, base_register, num_vectors),
                  Machine(NoEnv)),
              Void)

SetFragmentConstantBlock(data, base_register, num_vectors) ==
    /\ ~aborted
    /\ Finish("SetFragmentConstantBlock",
              [data |-> data, base_register |-> base_register, num_vectors |-> num_vectors],
              Run(SetConstantCode("GL_FRAGMENT_PROGRAM_ARB", data, base_register, num_vectors),
                  Machine(NoEnv)),
              Void)

SetFragmentConstant(data, base_register) ==
    /\ ~aborted
    /\ Finish("SetFragmentConstant",
              [data |-> data, base_register |-> base_register, num_vectors |-> 1],
              Run(SetConstantCode("GL_FRAGMENT_PROGRAM_ARB", data, base_register, 1),
                  Machine(NoEnv)),
              Void)

\* ----------------------------------------------------------------- buffers
\* SetVertexBufferData / SetIndexBufferData on the given target.
SetBufferDataCode(target, buffer, size, data, buffer_usage) ==
    << Call("glBindBufferARB", <<target, buffer>>),
       CHECK_GL_ERROR,
       Call("glBufferDataARB", <<target, size, data, buffer_usage>>),
       CHECK_GL_ERROR,
       Call("glBindBufferARB", <<target, 0>>),
       CHECK_GL_ERROR >>

\* NewVertexBuffer / NewIndexBuffer; buffer is the name glGenBuffersARB returns.
NewBufferCode(target, buffer, size, data, buffer_usage) ==
    << Call("glGenBuffersARB", <<1, buffer>>),
       CHECK_GL_ERROR >>
    \o SetBufferDataCode(target, buffer, size, data, buffer_usage)

\* DeleteVertexBuffer / DeleteIndexBuffer.
DeleteBufferCode(buffer) ==
    << Call("glDeleteBuffersARB", <<1, buffer>>),
       CHECK_GL_ERROR >>

\* A sub-data upload that leaves its buffer bound.
SetBufferSubDataCodeLeftBound(target, buffer, offset, size, data) ==
    << Call("glBindBufferARB", <<target, buffer>>),
       CHECK_GL_ERROR,
       Call("glBufferSubDataARB", <<target, offset, size, data>>),
       CHECK_GL_ERROR >>

\* SetVertexBufferSubData / SetIndexBufferSubData.
SetBufferSubDataCode(target, buffer, offset, size, data) ==
    << Call("glBindBufferARB", <<target, buffer>>),
       CHECK_GL_ERROR,
       Call("glBufferSubDataARB", <<target, offset, size, data>>),
       CHECK_GL_ERROR,
       Call("glBindBufferARB", <<target, 0>>),
       CHECK_GL_ERROR >>

\* MapVertexBuffer / MapIndexBuffer.
MapBufferCode(target, buffer, access) ==
    << Call("glBindBufferARB", <<target, buffer>>),
       CHECK_GL_ERROR,
       Call("glMapBufferARB", <<target, access>>),
       CHECK_GL_ERROR,
       Call("glBindBufferARB", <<target, 0>>),
       CHECK_GL_ERROR >>

\* UnmapVertexBuffer / UnmapIndexBuffer.
UnmapBufferCode(target, buffer) ==
    << Call("glBindBufferARB", <<target, buffer>>),
       CHECK_GL_ERROR,
       Call("glUnmapBufferARB", <<target>>),
       CHECK_GL_ERROR,
       Call("glBindBufferARB", <<target, 0>>),
       CHECK_GL_ERROR >>

\* void* result = glMapBufferARB(...); return result;
MapResult(m) == Value("void*", m.result.value)

\* An unmap that reports success whatever the native call returned.
UnmapResultAlwaysTrue(m) == Value("bool", TRUE)

\* bool result = glUnmapBufferARB(...) == GL_TRUE; return result;
UnmapResult(m) == Value("bool", m.result = Value("GLboolean", TRUE))

\* The sizes, sub-ranges <<offset, size>>, usage and access the callers pass.
BufferSizes == {4, 8}
SubRanges == {<<0, 4>>, <<4, 4>>}
BufferUsages == {"BUFFER_USAGE_STATIC_DRAW"}
BufferAccesses == {"BUFFER_ACCESS_READ_WRITE"}

NewVertexBuffer(size, buffer_usage) ==
    /\ ~aborted
    /\ Cardinality(gl.buffers) < MaxBuffers
    /\ LET buffer == FreshName(gl.buffers) IN
       Finish("NewVertexBuffer", [size |-> size, buffer_usage |-> buffer_usage],
              Run(NewBufferCode("GL_ARRAY_BUFFER_ARB", buffer, size, "data", buffer_usage),
                  Machine(NoEnv)),
              Value("HVertexBuffer", buffer))

DeleteVertexBuffer(buffer) ==
    /\ ~aborted
    /\ buffer \in gl.buffers
    /\ Finish("DeleteVertexBuffer", [buffer |-> buffer],
              Run(DeleteBufferCode(buffer), Machine(NoEnv)), Void)

SetVertexBufferData(buffer, size, buffer_usage) ==
    /\ ~aborted
    /\ buffer \in gl.buffers
    /\ Finish("SetVertexBufferData",
              [buffer |-> buffer, size |-> size, buffer_usage |-> buffer_usage],
              Run(SetBufferDataCode("GL_ARRAY_BUFFER_ARB", buffer, size, "data", buffer_usage),
                  Machine(NoEnv)),
              Void)

SetVertexBufferSubData(buffer, offset, size) ==
    /\ ~aborted
    /\ buffer \in gl.buffers
    /\ Finish("SetVertexBufferSubData", [buffer |-> buffer, offset |-> offset, size |-> size],
              Run(SetBufferSubDataCode("GL_ARRAY_BUFFER_ARB", buffer, offset, size, "data"),
                  Machine(NoEnv)),
              Void)

MapVertexBuffer(buffer, access) ==
    /\ ~aborted
    /\ buffer \in gl.buffers
    /\ LET m == Run(MapBufferCode("GL_ARRAY_BUFFER_ARB", buffer, access), Machine(NoEnv)) IN
       Finish("MapVertexBuffer", [buffer |-> buffer, access |-> access], m, MapResult(m))

UnmapVertexBuffer(buffer, corrupted) ==
    /\ ~aborted
    /\ buffer \in gl.buffers
    /\ LET m == Run(UnmapBufferCode("GL_ARRAY_BUFFER_ARB", buffer),
                    Machine(Env(TRUE, TRUE, corrupted))) IN
       Finish("UnmapVertexBuffer", [buffer |-> buffer], m, UnmapResult(m))

NewIndexBuffer(size, buffer_usage) ==
    /\ ~aborted
    /\ Cardinality(gl.buffers) < MaxBuffers
    /\ LET buffer == FreshName(gl.buffers) IN
       Finish("NewIndexBuffer", [size |-> size, buffer_usage |-> buffer_usage],
              Run(NewBufferCode("GL_ELEMENT_ARRAY_BUFFER_ARB", buffer, size, "data", buffer_usage),
                  Machine(NoEnv)),
              Value("HIndexBuffer", buffer))

DeleteIndexBuffer(buffer) ==
    /\ ~aborted
    /\ buffer \in gl.buffers
    /\ Finish("DeleteIndexBuffer", [buffer |-> buffer],
              Run(DeleteBufferCode(buffer), Machine(NoEnv)), Void)

SetIndexBufferData(buffer, size, buffer_usage) ==
    /\ ~aborted
    /\ buffer \in gl.buffers
    /\ Finish("SetIndexBufferData",
              [buffer |-> buffer, size |-> size, buffer_usage |-> buffer_usage],
              Run(SetBufferDataCode("GL_ELEMENT_ARRAY_BUFFER_ARB", buffer, size, "data", buffer_usage),
                  Machine(NoEnv)),
              Void)

SetIndexBufferSubData(buffer, offset, size) ==
    /\ ~aborted
    /\ buffer \in gl.buffers
    /\ Finish("SetIndexBufferSubData", [buffer |-> buffer, offset |-> offset, size |-> size],
              Run(SetBufferSubDataCode("GL_ELEMENT_ARRAY_BUFFER_ARB", buffer, offset, size, "data"),
                  Machine(NoEnv)),
              Void)

MapIndexBuffer(buffer, access) ==
    /\ ~aborted
    /\ buffer \in gl.buffers
    /\ LET m == Run(MapBufferCode("GL_ELEMENT_ARRAY_BUFFER_ARB", buffer, access), Machine(NoEnv)) IN
       Finish("MapIndexBuffer", [buffer |-> buffer, access |-> access], m, MapResult(m))

UnmapIndexBuffer(buffer, corrupted) ==
    /\ ~aborted
    /\ buffer \in gl.buffers
    /\ LET m == Run(UnmapBufferCode("GL_ELEMENT_ARRAY_BUFFER_ARB", buffer),
                    Machine(Env(TRUE, TRUE, corrupted))) IN
       Finish("UnmapIndexBuffer", [buffer |-> buffer], m, UnmapResult(m))

\* ------------------------------------------------- vertex declarations
\* The Type tags GetTypeSize names, and one tag it does not name.
KnownTypes ==
    {"TYPE_BYTE", "TYPE_UNSIGNED_BYTE", "TYPE_SHORT", "TYPE_UNSIGNED_SHORT",
     "TYPE_INT", "TYPE_UNSIGNED_INT", "TYPE_FLOAT"}
Types == KnownTypes \cup {"TYPE_OTHER"}

\* GetTypeSize: size is the value returned; fatal says that the default branch,
\* assert(0), was taken.  size starts at 0 and the default branch leaves it.
GetTypeSize(type) ==
    CASE type \in {"TYPE_BYTE", "TYPE_UNSIGNED_BYTE"} -> [size |-> 1, fatal |-> FALSE]
      [] type \in {"TYPE_SHORT", "TYPE_UNSIGNED_SHORT"} -> [size |-> 2, fatal |-> FALSE]
      [] type \in {"TYPE_INT", "TYPE_UNSIGNED_INT", "TYPE_FLOAT"} ->
            [size |-> 4, fatal |-> FALSE]
      [] OTHER -> [size |-> 0, fatal |-> TRUE]

\* The component counts the callers pass (VertexElement::m_Size).
ComponentCounts == {1, 3}

\* The caller's VertexElement arrays: every array of up to StreamCapacity
\* elements over the component counts and the type tags.  The caller numbers
\* the usage fields by position; they are only copied.
ElementShapes == UNION {[1..n -> ComponentCounts \X Types] : n \in 0..StreamCapacity}
ElementArray(shape) ==
    [i \in 1..Len(shape) |->
        [m_Size |-> shape[i][1], m_Type |-> shape[i][2],
         m_Usage |-> i, m_UsageIndex |-> Len(shape) - i]]
ElementArrays == {ElementArray(shape) : shape \in ElementShapes}

\* The caller's arrays of up to one element more than the stream array holds,
\* every element of one shape.
UniformElementArrays ==
    {ElementArray([i \in 1..n |-> shape]) :
        n \in 0..(StreamCapacity + 1), shape \in ComponentCounts \X KnownTypes}

NoDeclaration == [live |-> FALSE]

\* The loop body of NewVertexDeclaration with the offset taken after the stride
\* was advanced instead of before.
StreamLoopBodyOffsetAfter(d, e, i) ==
    LET ts == GetTypeSize(e.m_Type)
        stride == d.m_Stride + e.m_Size * ts.size IN
    [d EXCEPT
        !.m_Streams = [s \in (DOMAIN d.m_Streams) \cup {i} |->
            IF s = i
            THEN [m_Index |-> i, m_Size |-> e.m_Size, m_Usage |-> e.m_Usage,
                  m_Type |-> e.m_Type, m_UsageIndex |-> e.m_UsageIndex,
                  m_Offset |-> stride]
            ELSE d.m_Streams[s]],
        !.m_Stride = stride,
        !.fatal = ts.fatal /\ ~ndebug]

\* The loop body of NewVertexDeclaration with its offsets starting at the name
\* of the buffer bound to GL_ARRAY_BUFFER.
StreamLoopBodyFromBinding(d, e, i) ==
    LET ts == GetTypeSize(e.m_Type) IN
    [d EXCEPT
        !.m_Streams = [s \in (DOMAIN d.m_Streams) \cup {i} |->
            IF s = i
            THEN [m_Index |-> i, m_Size |-> e.m_Size, m_Usage |-> e.m_Usage,
                  m_Type |-> e.m_Type, m_UsageIndex |-> e.m_UsageIndex,
                  m_Offset |-> d.m_Stride + gl.boundBuffer["GL_ARRAY_BUFFER_ARB"]]
            ELSE d.m_Streams[s]],
        !.m_Stride = d.m_Stride + e.m_Size * ts.size,
        !.fatal = ts.fatal /\ ~ndebug]

\* One pass of the loop body of NewVertexDeclaration, for element e at index i:
\* the stream is written, then GetTypeSize is called for the stride.  d holds
\* the object under construction: m_Streams maps the slots written so far.
StreamLoopBody(d, e, i) ==
    LET ts == GetTypeSize(e.m_Type) IN
    [d EXCEPT
        !.m_Streams = [s \in (DOMAIN d.m_Streams) \cup {i} |->
            IF s = i
            THEN [m_Index |-> i, m_Size |-> e.m_Size, m_Usage |-> e.m_Usage,
                  m_Type |-> e.m_Type, m_UsageIndex |-> e.m_UsageIndex,
                  m_Offset |-> d.m_Stride]
            ELSE d.m_Streams[s]],
        !.m_Stride = d.m_Stride + e.m_Size * ts.size,
        !.fatal = ts.fatal /\ ~ndebug]

\* for (i = 0; i < count; i++): stops at once when an assert fails.
RECURSIVE StreamLoop(_, _, _, _)
StreamLoop(d, elems, count, i) ==
    IF i >= count \/ d.fatal THEN d
    ELSE StreamLoop(StreamLoopBody(d, elems[i + 1], i), elems, count, i + 1)

\* The body of NewVertexDeclaration.  new VertexDeclaration initialises no
\* member: m_Streams maps only the slots that were written.  fatal when an
\* assert failed on the way.
BuildVertexDeclaration(elems, count) ==
    LET d0 == [m_Streams |-> <<>>, m_Stride |-> 0, fatal |-> FALSE] IN
    IF ~(count < StreamCapacity) /\ ~ndebug
    THEN [d0 EXCEPT !.fatal = TRUE]
    ELSE StreamLoop(d0, elems, count, 0)

\* The slots of m_Streams past the end of the array that were written.
PastTheArray(d) == {s \in DOMAIN d.m_Streams : s >= StreamCapacity}

\* A write past the end of m_Streams is undefined: the process goes on with
\* what was computed, or it crashes.
NewVertexDeclaration ==
    /\ ~aborted
    /\ ~vd.live
    /\ \E crashes \in BOOLEAN :
       LET d == BuildVertexDeclaration(element, Len(element))
           fatal == d.fatal \/ crashes IN
       /\ crashes => PastTheArray(d) # {}
       /\ aborted' = fatal
       /\ vd' = IF fatal THEN vd
                ELSE [live |-> TRUE, m_Streams |-> d.m_Streams,
                      m_Stride |-> d.m_Stride, m_StreamCount |-> Len(element)]
       /\ ret' = IF fatal THEN Void ELSE Value("HVertexDeclaration", "vd")
       /\ made' = IF fatal THEN made ELSE made \cup {vd'}
    /\ lastOp' = "NewVertexDeclaration"
    /\ UNCHANGED <<ndebug, element, configVars, deviceVars>>

DeleteVertexDeclaration ==
    /\ ~aborted
    /\ vd.live
    /\ vd' = NoDeclaration
    /\ lastOp' = "DeleteVertexDeclaration"
    /\ ret' = Void
    /\ UNCHANGED <<ndebug, aborted, element, made, configVars, deviceVars>>

\* The loop of EnableVertexDeclaration passing each stream's own size where the
\* declaration's stride belongs.
RECURSIVE EnableStreamsCodeSizeAsStride(_, _)
EnableStreamsCodeSizeAsStride(d, i) ==
    IF i >= d.m_StreamCount THEN << >>
    ELSE << Call("glEnableVertexAttribArray", <<d.m_Streams[i].m_Index>>),
            CHECK_GL_ERROR,
            Call("glVertexAttribPointer",
                 <<d.m_Streams[i].m_Index, d.m_Streams[i].m_Size, d.m_Streams[i].m_Type,
                   FALSE, d.m_Streams[i].m_Size, d.m_Streams[i].m_Offset>>),
            CHECK_GL_ERROR >>
         \o EnableStreamsCodeSizeAsStride(d, i + 1)

\* The loop of EnableVertexDeclaration from stream i on.
RECURSIVE EnableStreamsCode(_, _)
EnableStreamsCode(d, i) ==
    IF i >= d.m_StreamCount THEN << >>
    ELSE << Call("glEnableVertexAttribArray", <<d.m_Streams[i].m_Index>>),
            CHECK_GL_ERROR,
            Call("glVertexAttribPointer",
                 <<d.m_Streams[i].m_Index, d.m_Streams[i].m_Size, d.m_Streams[i].m_Type,
                   FALSE, d.m_Stride, d.m_Streams[i].m_Offset>>),
            CHECK_GL_ERROR >>
         \o EnableStreamsCode(d, i + 1)

\* EnableVertexDeclaration(context, vertex_declaration, vertex_buffer).
\* GL_ARRAY_BUFFER and GL_ARRAY_BUFFER_ARB are one target.
EnableVertexDeclarationCode(d, vertex_buffer) ==
    << AssertThat(TRUE),
       AssertThat(vertex_buffer # 0),
       AssertThat(d.live),
       Call("glBindBufferARB", <<"GL_ARRAY_BUFFER_ARB", vertex_buffer>>),
       CHECK_GL_ERROR >>
    \o EnableStreamsCode(d, 0)

\* The loop of DisableVertexDeclaration counting the raw indices from 1.
RECURSIVE DisableStreamsCodeFromOne(_, _)
DisableStreamsCodeFromOne(d, i) ==
    IF i >= d.m_StreamCount THEN << >>
    ELSE << Call("glDisableVertexAttribArray", <<i + 1>>),
            CHECK_GL_ERROR >>
         \o DisableStreamsCodeFromOne(d, i + 1)

\* The loop of DisableVertexDeclaration from i on: the raw index i is disabled.
RECURSIVE DisableStreamsCode(_, _)
DisableStreamsCode(d, i) ==
    IF i >= d.m_StreamCount THEN << >>
    ELSE << Call("glDisableVertexAttribArray", <<i>>),
            CHECK_GL_ERROR >>
         \o DisableStreamsCode(d, i + 1)

\* DisableVertexDeclaration(context, vertex_declaration).
DisableVertexDeclarationCode(d) ==
    << AssertThat(TRUE),
       AssertThat(d.live) >>
    \o DisableStreamsCode(d, 0)
    \o << Call("glBindBufferARB", <<"GL_ARRAY_BUFFER_ARB", 0>>),
          CHECK_GL_ERROR,
          Call("glBindBufferARB", <<"GL_ELEMENT_ARRAY_BUFFER_ARB", 0>>),
          CHECK_GL_ERROR >>

\* DrawRangeElements(context, prim_type, start, count, type, index_buffer).
\* GL_ELEMENT_ARRAY_BUFFER and GL_ELEMENT_ARRAY_BUFFER_ARB are one target.
DrawRangeElementsCode(prim_type, start, count, type, index_buffer) ==
    << AssertThat(TRUE),
       AssertThat(index_buffer # 0),
       Call("glBindBufferARB", <<"GL_ELEMENT_ARRAY_BUFFER_ARB", index_buffer>>),
       CHECK_GL_ERROR,
       Call("glDrawRangeElements", <<prim_type, start, start + count, count * 3, type, 0>>),
       CHECK_GL_ERROR >>

EnableVertexDeclaration(vertex_buffer) ==
    /\ ~aborted
    /\ vd.live
    /\ vertex_buffer \in gl.buffers
    /\ Finish("EnableVertexDeclaration", [vertex_buffer |-> vertex_buffer],
              Run(EnableVertexDeclarationCode(vd, vertex_buffer), Machine(NoEnv)), Void)

DisableVertexDeclaration ==
    /\ ~aborted
    /\ vd.live
    /\ Finish("DisableVertexDeclaration", << >>,
              Run(DisableVertexDeclarationCode(vd), Machine(NoEnv)), Void)

DrawRangeElements(index_buffer) ==
    /\ ~aborted
    /\ index_buffer \in gl.buffers
    /\ Finish("DrawRangeElements", [index_buffer |-> index_buffer],
              Run(DrawRangeElementsCode("PRIMITIVE_TRIANGLES", 0, 1, "TYPE_UNSIGNED_SHORT",
                                        index_buffer),
                  Machine(NoEnv)),
              Void)

\* The size of the vertex buffers drawn from: a vertex of the widest format.
DrawBufferSize == 12 * StreamCapacity

\* The vertex formats drawn with: the caller's arrays of floats and bytes.
DrawnTypes == {"TYPE_FLOAT", "TYPE_UNSIGNED_BYTE"}
DrawnElementArrays ==
    {e \in ElementArrays : \A i \in 1..Len(e) : e[i].m_Type \in DrawnTypes}

\* --------------------------------------------------- GetSocketsFromConfig
SocketKeys == {"server.socket", "server.socket_ssl", "server.socket_ssl_test"}
SocketParams == {"socket", "socket_ssl", "socket_ssl_test"}

\* dmConfigFile::GetInt(config, key, default_value): the integer stored for the
\* key, default_value when the store has no entry for it.
GetInt(cfg, key, default_value) ==
    IF key \in DOMAIN cfg THEN cfg[key] ELSE default_value

\* The three lookups with the third reading the key of the second.
SocketLookupsWrongKey ==
    << [param |-> "socket", key |-> "server.socket", default_value |-> -1],
       [param |-> "socket_ssl", key |-> "server.socket_ssl", default_value |-> -1],
       [param |-> "socket_ssl_test", key |-> "server.socket_ssl", default_value |-> -1] >>

\* The three lookups of GetSocketsFromConfig, in the order of the source: the
\* parameter written, the key read and the default passed to GetInt.
SocketLookups ==
    << [param |-> "socket", key |-> "server.socket", default_value |-> -1],
       [param |-> "socket_ssl", key |-> "server.socket_ssl", default_value |-> -1],
       [param |-> "socket_ssl_test", key |-> "server.socket_ssl_test", default_value |-> -1] >>

\* The caller's integers after the first n lookups: a lookup is made, and its
\* result stored, only when the parameter is not a null pointer.
RECURSIVE WriteSockets(_, _, _, _)
WriteSockets(cfg, ptrs, written, n) ==
    IF n = 0 THEN written
    ELSE LET before == WriteSockets(cfg, ptrs, written, n - 1)
             l == SocketLookups[n] IN
         IF l.param \in ptrs
         THEN [p \in (DOMAIN before) \cup {l.param} |->
                  IF p = l.param THEN GetInt(cfg, l.key, l.default_value) ELSE before[p]]
         ELSE before

GetSocketsFromConfig ==
    /\ lastOp = "none"
    /\ out' = WriteSockets(config, outPtrs, out, Len(SocketLookups))
    /\ lastOp' = "GetSocketsFromConfig"
    /\ ret' = Void
    /\ UNCHANGED <<ndebug, aborted, declVars, config, outPtrs, deviceVars>>

\* The configuration stores: any subset of the keys, each with a port.
ConfigStores == UNION {[ks -> 0..MaxPort] : ks \in SUBSET SocketKeys}

\* ------------------------------------------------------------------ specs
\* The process at start: nothing created; the build is any of the four.
Init ==
    /\ ndebug \in BOOLEAN
    /\ aborted = FALSE
    /\ lastOp = "none"
    /\ ret = Void
    /\ element = <<>>
    /\ vd = NoDeclaration
    /\ made = {}
    /\ config = <<>>
    /\ outPtrs = {}
    /\ out = <<>>
    /\ win32 \in BOOLEAN
    /\ gdevice = GDeviceInit
    /\ glfw = GlfwInit
    /\ ext = FALSE
    /\ gl = GLInit
    /\ heap = HeapInit
    /\ calls = << >>
    /\ args = << >>
    /\ env = NoEnv
    /\ pre = [gdevice |-> GDeviceInit, glfw |-> GlfwInit, ext |-> FALSE,
              gl |-> GLInit, heap |-> HeapInit]
    /\ lastSet = [t \in ProgramTypes |-> << >>]

InitDecl ==
    /\ ndebug \in BOOLEAN
    /\ aborted = FALSE
    /\ lastOp = "none"
    /\ ret = Void
    /\ element \in ElementArrays
    /\ vd = NoDeclaration
    /\ made = {}
    /\ config = <<>>
    /\ outPtrs = {}
    /\ out = <<>>
    /\ win32 = FALSE
    /\ gdevice = GDeviceInit
    /\ glfw = GlfwInit
    /\ ext = FALSE
    /\ gl = GLInit
    /\ heap = HeapInit
    /\ calls = << >>
    /\ args = << >>
    /\ env = NoEnv
    /\ pre = [gdevice |-> GDeviceInit, glfw |-> GlfwInit, ext |-> FALSE,
              gl |-> GLInit, heap |-> HeapInit]
    /\ lastSet = [t \in ProgramTypes |-> << >>]

NextDevice ==
    \/ \E params \in CreateDeviceParams, available \in BOOLEAN : NewDevice(params, available)
    \/ DeleteDevice
    \/ GetWindowWidth
    \/ GetWindowHeight

SpecDevice == Init /\ [][NextDevice]_vars

\* The process after a successful NewDevice.
InitCreated ==
    /\ ndebug \in BOOLEAN
    /\ aborted = FALSE
    /\ lastOp = "none"
    /\ ret = Void
    /\ element = <<>>
    /\ vd = NoDeclaration
    /\ made = {}
    /\ config = <<>>
    /\ outPtrs = {}
    /\ out = <<>>
    /\ win32 = FALSE
    /\ gdevice = [m_DisplayWidth |-> 640, m_DisplayHeight |-> 480]
    /\ glfw = [initialized |-> TRUE,
               window |-> [opened |-> TRUE, width |-> 640, height |-> 480,
                           title |-> "app", swapInterval |-> 1]]
    /\ ext = FALSE
    /\ gl = GLInit
    /\ heap = HeapInit
    /\ calls = << >>
    /\ args = << >>
    /\ env = NoEnv
    /\ pre = [gdevice |-> gdevice, glfw |-> glfw, ext |-> ext, gl |-> gl, heap |-> heap]
    /\ lastSet = [t \in ProgramTypes |-> << >>]

NextRenderTarget ==
    \/ NewTexture
    \/ \E h \in 1..MaxTextures : DeleteTexture(h)
    \/ \E h \in 1..MaxTextures : SetTexture(h)
    \/ \E size \in RenderTargetSizes, format \in RenderTargetFormats :
          NewRenderTarget(size, format)
    \/ \E rt \in 1..MaxTextures : DeleteRenderTarget(rt)
    \/ \E rt \in 1..MaxTextures : EnableRenderTarget(rt)
    \/ \E rt \in 1..MaxTextures : DisableRenderTarget(rt)
    \/ \E rt \in 1..MaxTextures : GetRenderTargetTexture(rt)

SpecRenderTarget == InitCreated /\ [][NextRenderTarget]_vars

NextProgram ==
    \/ \E program \in ProgramTexts, valid \in BOOLEAN : NewVertexProgram(program, valid)
    \/ \E program \in ProgramTexts, valid \in BOOLEAN : NewFragmentProgram(program, valid)
    \/ \E program \in 0..MaxPrograms : SetVertexProgram(program)
    \/ \E program \in 0..MaxPrograms : SetFragmentProgram(program)
    \/ \E program \in 1..MaxPrograms : DeleteVertexProgram(program)
    \/ \E program \in 1..MaxPrograms : DeleteFragmentProgram(program)

SpecProgram == InitCreated /\ [][NextProgram]_vars

NextBuffer ==
    \/ \E size \in BufferSizes, buffer_usage \in BufferUsages : NewVertexBuffer(size, buffer_usage)
    \/ \E buffer \in 1..MaxBuffers : DeleteVertexBuffer(buffer)
    \/ \E buffer \in 1..MaxBuffers, size \in BufferSizes, buffer_usage \in BufferUsages :
          SetVertexBufferData(buffer, size, buffer_usage)
    \/ \E buffer \in 1..MaxBuffers, range \in SubRanges :
          SetVertexBufferSubData(buffer, range[1], range[2])
    \/ \E buffer \in 1..MaxBuffers, access \in BufferAccesses : MapVertexBuffer(buffer, access)
    \/ \E buffer \in 1..MaxBuffers, corrupted \in BOOLEAN : UnmapVertexBuffer(buffer, corrupted)
    \/ \E size \in BufferSizes, buffer_usage \in BufferUsages : NewIndexBuffer(size, buffer_usage)
    \/ \E buffer \in 1..MaxBuffers : DeleteIndexBuffer(buffer)
    \/ \E buffer \in 1..MaxBuffers, size \in BufferSizes, buffer_usage \in BufferUsages :
          SetIndexBufferData(buffer, size, buffer_usage)
    \/ \E buffer \in 1..MaxBuffers, range \in SubRanges :
          SetIndexBufferSubData(buffer, range[1], range[2])
    \/ \E buffer \in 1..MaxBuffers, access \in BufferAccesses : MapIndexBuffer(buffer, access)
    \/ \E buffer \in 1..MaxBuffers, corrupted \in BOOLEAN : UnmapIndexBuffer(buffer, corrupted)

SpecBuffer == InitCreated /\ [][NextBuffer]_vars

\* The process after a successful NewDevice, about to draw with one format.
InitDraw ==
    /\ ndebug \in BOOLEAN
    /\ aborted = FALSE
    /\ lastOp = "none"
    /\ ret = Void
    /\ element \in DrawnElementArrays
    /\ vd = NoDeclaration
    /\ made = {}
    /\ config = <<>>
    /\ outPtrs = {}
    /\ out = <<>>
    /\ win32 = FALSE
    /\ gdevice = [m_DisplayWidth |-> 640, m_DisplayHeight |-> 480]
    /\ glfw = [initialized |-> TRUE,
               window |-> [opened |-> TRUE, width |-> 640, height |-> 480,
                           title |-> "app", swapInterval |-> 1]]
    /\ ext = FALSE
    /\ gl = GLInit
    /\ heap = HeapInit
    /\ calls = << >>
    /\ args = << >>
    /\ env = NoEnv
    /\ pre = [gdevice |-> gdevice, glfw |-> glfw, ext |-> ext, gl |-> gl, heap |-> heap]
    /\ lastSet = [t \in ProgramTypes |-> << >>]

NextDraw ==
    \/ NewVertexDeclaration
    \/ DeleteVertexDeclaration
    \/ \E buffer_usage \in BufferUsages : NewVertexBuffer(DrawBufferSize, buffer_usage)
    \/ \E vertex_buffer \in 1..MaxBuffers : EnableVertexDeclaration(vertex_buffer)
    \/ DisableVertexDeclaration

SpecDraw == InitDraw /\ [][NextDraw]_vars

NextConstant ==
    \/ \E data \in ConstantData, base_register \in BaseRegisters, num_vectors \in VectorCounts :
          SetVertexConstantBlock(data, base_register, num_vectors)
    \/ \E data \in ConstantData, base_register \in BaseRegisters, num_vectors \in VectorCounts :
          SetFragmentConstantBlock(data, base_register, num_vectors)
    \/ \E data \in ConstantData, base_register \in BaseRegisters :
          SetFragmentConstant(data, base_register)

SpecConstant == InitCreated /\ [][NextConstant]_vars

NextTexture ==
    \/ NewTexture
    \/ \E h \in 1..MaxTextures, size \in TextureSizes, texture_format \in TextureFormats,
          data_size \in DataSizes :
          SetTextureData(h, 0, size, texture_format, data_size)

SpecTexture == InitCreated /\ [][NextTexture]_vars

\* Buffers are filled while a declaration is enabled and indices are drawn.
NextBinding ==
    \/ \E buffer_usage \in BufferUsages : NewVertexBuffer(DrawBufferSize, buffer_usage)
    \/ \E buffer_usage \in BufferUsages : NewIndexBuffer(DrawBufferSize, buffer_usage)
    \/ \E buffer \in 1..MaxBuffers, buffer_usage \in BufferUsages :
          SetVertexBufferData(buffer, DrawBufferSize, buffer_usage)
    \/ \E buffer \in 1..MaxBuffers, buffer_usage \in BufferUsages :
          SetIndexBufferData(buffer, DrawBufferSize, buffer_usage)
    \/ \E buffer \in 1..MaxBuffers : SetVertexBufferSubData(buffer, 0, DrawBufferSize)
    \/ \E buffer \in 1..MaxBuffers : SetIndexBufferSubData(buffer, 0, DrawBufferSize)
    \/ \E buffer \in 1..MaxBuffers, access \in BufferAccesses : MapVertexBuffer(buffer, access)
    \/ \E buffer \in 1..MaxBuffers, access \in BufferAccesses : MapIndexBuffer(buffer, access)
    \/ \E buffer \in 1..MaxBuffers : UnmapVertexBuffer(buffer, FALSE)
    \/ \E buffer \in 1..MaxBuffers : UnmapIndexBuffer(buffer, FALSE)
    \/ NewVertexDeclaration
    \/ \E vertex_buffer \in 1..MaxBuffers : EnableVertexDeclaration(vertex_buffer)
    \/ \E index_buffer \in 1..MaxBuffers : DrawRangeElements(index_buffer)

SpecBinding == InitCreated /\ [][NextBinding]_vars

\* The process at start with an array of any count up to capacity + 1.
InitCapacity ==
    /\ ndebug \in BOOLEAN
    /\ aborted = FALSE
    /\ lastOp = "none"
    /\ ret = Void
    /\ element \in UniformElementArrays
    /\ vd = NoDeclaration
    /\ made = {}
    /\ config = <<>>
    /\ outPtrs = {}
    /\ out = <<>>
    /\ win32 = FALSE
    /\ gdevice = GDeviceInit
    /\ glfw = GlfwInit
    /\ ext = FALSE
    /\ gl = GLInit
    /\ heap = HeapInit
    /\ calls = << >>
    /\ args = << >>
    /\ env = NoEnv
    /\ pre = [gdevice |-> GDeviceInit, glfw |-> GlfwInit, ext |-> FALSE,
              gl |-> GLInit, heap |-> HeapInit]
    /\ lastSet = [t \in ProgramTypes |-> << >>]

NextDecl ==
    \/ NewVertexDeclaration
    \/ DeleteVertexDeclaration

SpecDecl == InitDecl /\ [][NextDecl]_vars

SpecCapacity == InitCapacity /\ [][NextDecl]_vars

InitConfig ==
    /\ ndebug = FALSE
    /\ aborted = FALSE
    /\ lastOp = "none"
    /\ ret = Void
    /\ element = <<>>
    /\ vd = NoDeclaration
    /\ made = {}
    /\ config \in ConfigStores
    /\ outPtrs \in SUBSET SocketParams
    /\ out = <<>>
    /\ win32 = FALSE
    /\ gdevice = GDeviceInit
    /\ glfw = GlfwInit
    /\ ext = FALSE
    /\ gl = GLInit
    /\ heap = HeapInit
    /\ calls = << >>
    /\ args = << >>
    /\ env = NoEnv
    /\ pre = [gdevice |-> GDeviceInit, glfw |-> GlfwInit, ext |-> FALSE,
              gl |-> GLInit, heap |-> HeapInit]
    /\ lastSet = [t \in ProgramTypes |-> << >>]

NextConfig == GetSocketsFromConfig

SpecConfig == InitConfig /\ [][NextConfig]_vars

\* ------------------------------------------------------------------ claims
\* Sum of component count x component byte size over the first n elements.
RECURSIVE SizeSum(_, _)
SizeSum(elems, n) ==
    IF n = 0 THEN 0
    ELSE SizeSum(elems, n - 1) + elems[n].m_Size * GetTypeSize(elems[n].m_Type).size

\* C1: in every declaration NewVertexDeclaration returns, the offset of stream i
\* is the sum of component count x component byte size over streams 0..i-1, the
\* stride is that sum over all streams, and the stream count is the count passed.
C1_OffsetsAndStride ==
    vd.live =>
        /\ vd.m_StreamCount = Len(element)
        /\ DOMAIN vd.m_Streams = 0..(Len(element) - 1)
        /\ \A i \in 0..(Len(element) - 1) :
              vd.m_Streams[i].m_Offset = SizeSum(element, i)
        /\ vd.m_Stride = SizeSum(element, Len(element))

\* A declaration of two streams, three floats then one short, in a build with
\* assertions: the second stream starts at byte 12.
C1_Witness ==
    /\ ~ndebug
    /\ vd.live
    /\ vd.m_StreamCount = 2
    /\ element[1].m_Size = 3 /\ element[1].m_Type = "TYPE_FLOAT"
    /\ element[2].m_Type = "TYPE_SHORT"
    /\ vd.m_Streams[1].m_Offset = 12

\* The byte size the specification gives each type tag.
DocumentedTypeSize(type) ==
    CASE type \in {"TYPE_BYTE", "TYPE_UNSIGNED_BYTE"} -> 1
      [] type \in {"TYPE_SHORT", "TYPE_UNSIGNED_SHORT"} -> 2
      [] type \in {"TYPE_INT", "TYPE_UNSIGNED_INT", "TYPE_FLOAT"} -> 4
      [] OTHER -> 0

RECURSIVE DocumentedSum(_, _)
DocumentedSum(elems, n) ==
    IF n = 0 THEN 0
    ELSE DocumentedSum(elems, n - 1) + elems[n].m_Size * DocumentedTypeSize(elems[n].m_Type)

\* C2: GetTypeSize gives 1 for the byte tags, 2 for the short tags and 4 for the
\* int and float tags, and any other tag takes the fatal path: no declaration is
\* ever returned that holds a stream of another tag, contributing a default size.
C2_TypeSizeOrFatal ==
    vd.live =>
        /\ \A i \in DOMAIN vd.m_Streams : vd.m_Streams[i].m_Type \in KnownTypes
        /\ vd.m_Stride = DocumentedSum(element, Len(element))

\* The key the specification names for each output parameter.
KeyOfParam(p) ==
    CASE p = "socket" -> "server.socket"
      [] p = "socket_ssl" -> "server.socket_ssl"
      [] p = "socket_ssl_test" -> "server.socket_ssl_test"

\* C4: GetSocketsFromConfig writes exactly the integers whose pointer is not
\* null; each receives -1 when the store has no entry for its own key and the
\* stored integer otherwise, whatever the store holds for the other two keys.
C4_SocketLookup ==
    lastOp = "GetSocketsFromConfig" =>
        /\ DOMAIN out = outPtrs
        /\ \A p \in outPtrs :
              out[p] = IF KeyOfParam(p) \in DOMAIN config
                       THEN config[KeyOfParam(p)] ELSE -1

\* All three pointers given; the store holds server.socket_ssl only, so the
\* first and third integers are -1 and the second is the stored one.
C4_Witness ==
    /\ lastOp = "GetSocketsFromConfig"
    /\ outPtrs = SocketParams
    /\ DOMAIN config = {"server.socket_ssl"}
    /\ config["server.socket_ssl"] = 2
    /\ out["socket"] = -1 /\ out["socket_ssl"] = 2 /\ out["socket_ssl_test"] = -1

\* The names of the native calls the last operation made, in order.
CallNames == [i \in 1..Len(calls) |-> calls[i].fn]

\* The last operation was a NewDevice whose glfwOpenWindow returned 0.
NewDeviceFailed ==
    /\ lastOp = "NewDevice"
    /\ ~OpenWindowSucceeds([pre.glfw EXCEPT !.initialized = TRUE], env.available)

\* C3 as stated: when the window cannot be opened NewDevice returns a null
\* handle and mutates no state: the recorded display size, the windowing
\* library with its window (title, swap interval) and the extension entry
\* points are all as they were before the call.
C3_FailedNewDeviceMutatesNothing ==
    NewDeviceFailed =>
        /\ ret = NullDevice
        /\ gdevice = pre.gdevice
        /\ glfw = pre.glfw
        /\ ext = pre.ext

\* C3 as amended: when the window cannot be opened NewDevice returns a null
\* handle after exactly glfwInit, glfwOpenWindow and glfwTerminate: the
\* windowing library is left shut down, the recorded display size is what it
\* was (so GetWindowWidth and GetWindowHeight are unchanged), and no window
\* title, swap interval or extension entry point is set.
C3_FailedNewDeviceOnlyTerminates ==
    NewDeviceFailed =>
        /\ ~aborted
        /\ ret = NullDevice
        /\ gdevice = pre.gdevice
        /\ ext = pre.ext
        /\ CallNames = <<"glfwInit", "glfwOpenWindow", "glfwTerminate">>
        /\ glfw = GlfwInit

\* A NewDevice that fails while the device of an earlier NewDevice is up: the
\* recorded size is still 640 x 480 and that device's window is gone.
C3_Witness ==
    /\ NewDeviceFailed
    /\ ret = NullDevice
    /\ pre.glfw.window.opened
    /\ ~glfw.window.opened
    /\ args.m_DisplayWidth = 800
    /\ gdevice.m_DisplayWidth = 640 /\ gdevice.m_DisplayHeight = 480

\* The positions in the last operation's log of the calls named fn.
Positions(fn) == {i \in 1..Len(calls) : calls[i].fn = fn}
First(fn) == CHOOSE i \in Positions(fn) : \A j \in Positions(fn) : i <= j

\* The position of the delete of the heap object of the given type.
FreedAt(type) ==
    CHOOSE i \in Positions("delete") : calls[i].args[1] = type

\* The native calls that release a native resource.
NativeDeleteCalls ==
    {"glDeleteFramebuffers", "glDeleteRenderbuffers", "glDeleteTextures",
     "glDeleteProgramsARB", "glDeleteBuffersARB"}
NativeDeletes == SelectSeq(calls, LAMBDA c : c.fn \in NativeDeleteCalls)

\* The native names the render target at handle rt held before the last
\* operation.
DeletedTarget == pre.heap.RenderTarget[args]
DeletedTexture == pre.heap.Texture[DeletedTarget.m_Texture].m_Texture

\* C5: DeleteRenderTarget releases exactly three native resources, the
\* target's framebuffer, its renderbuffer and its owned color texture, each
\* exactly once, whether or not the target is the bound render target, and
\* releases no other native resource.
C5_DeleteReleasesExactlyThree ==
    lastOp = "DeleteRenderTarget" =>
        /\ Len(NativeDeletes) = 3
        /\ {NativeDeletes[i] : i \in 1..3} =
              {[fn |-> "glDeleteFramebuffers", args |-> <<1, DeletedTarget.m_FboId>>],
               [fn |-> "glDeleteRenderbuffers", args |-> <<1, DeletedTarget.m_RboId>>],
               [fn |-> "glDeleteTextures", args |-> <<1, DeletedTexture>>]}
        /\ gl.framebuffers = pre.gl.framebuffers \ {DeletedTarget.m_FboId}
        /\ DeletedTarget.m_FboId \in pre.gl.framebuffers
        /\ gl.renderbuffers = pre.gl.renderbuffers \ {DeletedTarget.m_RboId}
        /\ DeletedTarget.m_RboId \in pre.gl.renderbuffers
        /\ gl.textures = pre.gl.textures \ {DeletedTexture}
        /\ DeletedTexture \in pre.gl.textures
        /\ gl.programs = pre.gl.programs
        /\ gl.buffers = pre.gl.buffers

\* The deleted target was the enabled one, and another texture outlives it.
C5_Witness ==
    /\ lastOp = "DeleteRenderTarget"
    /\ pre.gl.boundFramebuffer = DeletedTarget.m_FboId
    /\ gl.boundFramebuffer = 0
    /\ Cardinality(pre.gl.textures) = 2
    /\ Cardinality(gl.textures) = 1

\* The native calls that change the state of the context.
StateChangingCalls ==
    TextureCalls \cup FramebufferCalls \cup ProgramCalls \cup BufferCalls

\* C6: every state-changing call to the native graphics API is followed,
\* before the next native call, by a query of the native error flag, a
\* non-zero flag being logged and ending a debug build; in particular the
\* calls of DeleteRenderTarget, EnableRenderTarget, DisableRenderTarget and
\* DeleteTexture.
C6_EveryNativeCallChecked ==
    /\ \A i \in 1..Len(calls) :
          calls[i].fn \in StateChangingCalls =>
              i < Len(calls) /\ calls[i + 1].fn = "glGetError"
    /\ (Positions("printf") # {} /\ ~ndebug) => aborted

\* The render target the last operation returned, and its native names.
NewTarget == heap.RenderTarget[ret.value]
NewTargetTexture == heap.Texture[NewTarget.m_Texture].m_Texture

\* C9: NewRenderTarget allocates the color texture, then the framebuffer,
\* then the renderbuffer, attaches the texture and then the renderbuffer to
\* the framebuffer, and finally unbinds; on return the bound framebuffer and
\* the bound renderbuffer are both 0, and both attachments were made while
\* the new framebuffer was the bound one.
C9_NewRenderTargetOrder ==
    (lastOp = "NewRenderTarget" /\ ~aborted) =>
        /\ \A fn \in {"glGenTextures", "glGenFramebuffers", "glGenRenderbuffers",
                      "glFramebufferTexture2D", "glFramebufferRenderbuffer"} :
              Cardinality(Positions(fn)) = 1
        /\ calls[First("glGenTextures")].args = <<1, NewTargetTexture>>
        /\ calls[First("glGenFramebuffers")].args = <<1, NewTarget.m_FboId>>
        /\ calls[First("glGenRenderbuffers")].args = <<1, NewTarget.m_RboId>>
        /\ calls[First("glFramebufferTexture2D")].args[4] = NewTargetTexture
        /\ calls[First("glFramebufferRenderbuffer")].args[4] = NewTarget.m_RboId
        /\ First("glGenTextures") < First("glGenFramebuffers")
        /\ First("glGenFramebuffers") < First("glGenRenderbuffers")
        /\ First("glGenRenderbuffers") < First("glFramebufferTexture2D")
        /\ First("glFramebufferTexture2D") < First("glFramebufferRenderbuffer")
        \* the new framebuffer is bound before the attachments, and nothing
        \* else is bound until both are made
        /\ \E i \in Positions("glBindFramebuffer") :
              /\ i < First("glFramebufferTexture2D")
              /\ calls[i].args[2] = NewTarget.m_FboId
        /\ \A i \in Positions("glBindFramebuffer") :
              i < First("glFramebufferRenderbuffer") =>
                  calls[i].args[2] = NewTarget.m_FboId
        \* the unbinds come last
        /\ \E i \in Positions("glBindFramebuffer") :
              i > First("glFramebufferRenderbuffer") /\ calls[i].args[2] = 0
        /\ \E i \in Positions("glBindRenderbuffer") :
              i > First("glFramebufferRenderbuffer") /\ calls[i].args[2] = 0
        /\ gl.boundFramebuffer = 0
        /\ gl.boundRenderbuffer = 0
        /\ <<NewTarget.m_FboId, NewTargetTexture>> \in gl.color
        /\ <<NewTarget.m_FboId, NewTarget.m_RboId>> \in gl.depth

\* A second render target made while the first one is enabled: the binding
\* goes from the first target's framebuffer to 0.
C9_Witness ==
    /\ lastOp = "NewRenderTarget"
    /\ ~aborted
    /\ pre.gl.boundFramebuffer # 0
    /\ pre.gl.boundFramebuffer # NewTarget.m_FboId
    /\ gl.boundFramebuffer = 0
    /\ Cardinality(gl.color) = 2

\* C10: DeleteRenderTarget deletes the framebuffer and the renderbuffer
\* native objects before it releases the owned color texture, and frees the
\* texture wrapper and the render-target record only after their native
\* objects have been deleted.
C10_DeleteOrder ==
    lastOp = "DeleteRenderTarget" =>
        /\ \A fn \in {"glDeleteFramebuffers", "glDeleteRenderbuffers", "glDeleteTextures"} :
              Positions(fn) # {}
        /\ Cardinality(Positions("delete")) = 2
        /\ First("glDeleteFramebuffers") < First("glDeleteTextures")
        /\ First("glDeleteRenderbuffers") < First("glDeleteTextures")
        /\ First("glDeleteTextures") < FreedAt("Texture")
        /\ calls[FreedAt("Texture")].args = <<"Texture", DeletedTarget.m_Texture>>
        /\ FreedAt("Texture") < FreedAt("RenderTarget")
        /\ calls[FreedAt("RenderTarget")].args = <<"RenderTarget", args>>
        /\ FreedAt("RenderTarget") = Len(calls)

\* A render target deleted while another one exists: its record and texture
\* wrapper are gone from the heap, the other's remain.
C10_Witness ==
    /\ lastOp = "DeleteRenderTarget"
    /\ Cardinality(DOMAIN pre.heap.RenderTarget) = 2
    /\ DOMAIN heap.RenderTarget = (DOMAIN pre.heap.RenderTarget) \ {args}
    /\ DOMAIN heap.Texture = (DOMAIN pre.heap.Texture) \ {DeletedTarget.m_Texture}
    /\ Len(calls) = 5

\* C7 as stated: after any sequence of operations the vertex (respectively
\* fragment) program bound in the context is the one passed to the most
\* recent SetVertexProgram (respectively SetFragmentProgram), also when
\* NewVertexProgram/NewFragmentProgram calls came after that Set call.
C7_BoundIsLastSet ==
    \A t \in ProgramTypes :
        (lastSet[t] # << >> /\ lastSet[t][1] \in gl.programs \cup {0}) =>
            gl.boundProgram[t] = lastSet[t][1]

\* The operations on programs of the given type.
NewOperation(t) ==
    IF t = "GL_VERTEX_PROGRAM_ARB" THEN "NewVertexProgram" ELSE "NewFragmentProgram"
SetOperation(t) ==
    IF t = "GL_VERTEX_PROGRAM_ARB" THEN "SetVertexProgram" ELSE "SetFragmentProgram"
DeleteOperations == {"DeleteVertexProgram", "DeleteFragmentProgram"}

\* The program the last operation created: the name it generated.
CreatedProgram == calls[First("glGenProgramsARB")].args[2]

\* C7 as amended: the program bound for a type is the one bound by the most
\* recent glBindProgramARB of that type, and both Set*Program and
\* New*Program issue one: Set*Program leaves its argument bound and the type
\* enabled, New*Program leaves the program it created bound and (when it
\* returns) the type disabled, whatever an earlier Set*Program bound; deleting the bound
\* program leaves the default program 0 bound; no other operation, and no
\* operation on the other type, changes the binding.
C7_BoundIsLastBind ==
    \A t \in ProgramTypes :
        /\ lastOp = SetOperation(t) =>
              /\ gl.boundProgram[t] = args
              /\ t \in gl.enabled
        /\ lastOp = NewOperation(t) =>
              /\ gl.boundProgram[t] = CreatedProgram
              /\ CreatedProgram \notin pre.gl.programs
              /\ ~aborted => t \notin gl.enabled
        /\ lastOp \in DeleteOperations =>
              gl.boundProgram[t] =
                  IF pre.gl.boundProgram[t] = args THEN 0 ELSE pre.gl.boundProgram[t]
        /\ lastOp \notin {SetOperation(t), NewOperation(t)} \cup DeleteOperations =>
              gl.boundProgram[t] = pre.gl.boundProgram[t]

\* SetVertexProgram(1) and then NewVertexProgram: program 1 is alive and was
\* the last one set, and the bound vertex program is the new program 2.
C7_Witness ==
    /\ lastOp = "NewVertexProgram"
    /\ lastSet["GL_VERTEX_PROGRAM_ARB"] = <<1>>
    /\ pre.gl.boundProgram["GL_VERTEX_PROGRAM_ARB"] = 1
    /\ 1 \in gl.programs
    /\ gl.boundProgram["GL_VERTEX_PROGRAM_ARB"] = 2
    /\ "GL_VERTEX_PROGRAM_ARB" \notin gl.enabled

\* The return values that tell the caller a native call failed.
FailureSignals == {NullDevice, Value("bool", FALSE), Value("void*", 0)}

MapOperations == {"MapVertexBuffer", "MapIndexBuffer"}
UnmapOperations == {"UnmapVertexBuffer", "UnmapIndexBuffer"}

AttribCalls == SelectSeq(calls, LAMBDA c : c.fn \in VertexAttribCalls)

\* C11: EnableVertexDeclaration issues, for each stream in declaration order,
\* exactly one enable-attribute call followed by exactly one set-pointer call
\* carrying that stream's component count, its type, the declaration's stride
\* and the stream's byte offset; DisableVertexDeclaration issues exactly one
\* disable-attribute call per stream and no set-pointer call, and leaves the
\* attribute pointer bindings as they were.
C11_EnableDisableCalls ==
    /\ (lastOp = "EnableVertexDeclaration" /\ ~aborted) =>
          /\ Len(AttribCalls) = 2 * vd.m_StreamCount
          /\ \A i \in 0..(vd.m_StreamCount - 1) :
                /\ AttribCalls[2 * i + 1] =
                      [fn |-> "glEnableVertexAttribArray",
                       args |-> <<vd.m_Streams[i].m_Index>>]
                /\ AttribCalls[2 * i + 2] =
                      [fn |-> "glVertexAttribPointer",
                       args |-> <<vd.m_Streams[i].m_Index, element[i + 1].m_Size,
                                  element[i + 1].m_Type, FALSE, vd.m_Stride,
                                  vd.m_Streams[i].m_Offset>>]
                /\ <<vd.m_Streams[i].m_Index, element[i + 1].m_Size, element[i + 1].m_Type,
                     vd.m_Stride, vd.m_Streams[i].m_Offset, args.vertex_buffer>>
                       \in gl.attribPointers
    /\ (lastOp = "DisableVertexDeclaration" /\ ~aborted) =>
          /\ Len(AttribCalls) = vd.m_StreamCount
          /\ \A i \in 0..(vd.m_StreamCount - 1) :
                AttribCalls[i + 1] = [fn |-> "glDisableVertexAttribArray", args |-> <<i>>]
          /\ gl.attribPointers = pre.gl.attribPointers

\* A declaration of two streams of different types enabled on a buffer: four
\* attribute calls, the second stream's pointer at the first one's byte size.
C11_Witness ==
    /\ lastOp = "EnableVertexDeclaration"
    /\ ~aborted
    /\ vd.m_StreamCount = 2
    /\ element[1].m_Type = "TYPE_FLOAT" /\ element[1].m_Size = 3
    /\ element[2].m_Type = "TYPE_UNSIGNED_BYTE"
    /\ Len(AttribCalls) = 4
    /\ AttribCalls[4].args[5] = 12 + element[2].m_Size
    /\ AttribCalls[4].args[6] = 12

\* The constant uploads and the program type each writes.
ConstantOperations ==
    [SetVertexConstantBlock |-> "GL_VERTEX_PROGRAM_ARB",
     SetFragmentConstantBlock |-> "GL_FRAGMENT_PROGRAM_ARB",
     SetFragmentConstant |-> "GL_FRAGMENT_PROGRAM_ARB"]

\* The registers after an upload that writes the given registers of the
\* program bound to type, register b + i from the floats 4i..4i+3 of data.
RegistersAfter(type, data, b, written) ==
    LET program == pre.gl.boundProgram[type] IN
    {p \in pre.gl.localParameters : ~(p[1] = type /\ p[2] = program /\ p[3] \in written)}
    \cup {<<type, program, r,
            <<data[4 * (r - b) + 1], data[4 * (r - b) + 2],
              data[4 * (r - b) + 3], data[4 * (r - b) + 4]>>>> : r \in written}

\* C12 as stated: an upload with base register b and n >= 0 vectors writes
\* exactly the registers b..b+n-1 of the given program type, register b+i
\* from the floats 4i..4i+3 of the data, and no other register;
\* SetFragmentConstant writes the single fragment register b; a negative base
\* register or a negative count takes the fatal path before any register is
\* written.
C12_WritesRunOrFatal ==
    lastOp \in DOMAIN ConstantOperations =>
        LET type == ConstantOperations[lastOp]
            b == args.base_register
            n == args.num_vectors IN
        /\ lastOp = "SetFragmentConstant" => n = 1
        /\ IF b < 0 \/ n < 0
           THEN aborted /\ gl.localParameters = pre.gl.localParameters
           ELSE /\ ~aborted
                /\ gl.localParameters =
                      RegistersAfter(type, args.data, b, b..(b + n - 1))

\* C12 as amended: the same for b >= 0 and n >= 0; in a build with asserts a
\* negative base register or a negative count is fatal before any native call
\* is made; in a build without asserts nothing is fatal: a negative count
\* writes nothing, and with a negative base register the native API rejects
\* the negative indices (logged) and the registers of b..b+n-1 that are not
\* negative are written, register b+i from the floats 4i..4i+3.
C12_WritesRunFatalInDebug ==
    lastOp \in DOMAIN ConstantOperations =>
        LET type == ConstantOperations[lastOp]
            b == args.base_register
            n == args.num_vectors IN
        /\ lastOp = "SetFragmentConstant" => n = 1
        /\ aborted = (~ndebug /\ (b < 0 \/ n < 0))
        /\ aborted => (calls = << >> /\ gl.localParameters = pre.gl.localParameters)
        /\ ~aborted =>
              /\ gl.localParameters =
                    RegistersAfter(type, args.data, b, {r \in b..(b + n - 1) : r >= 0})
              /\ Cardinality(Positions("glProgramLocalParameter4fARB")) =
                    IF n < 0 THEN 0 ELSE n
              /\ Cardinality(Positions("printf")) =
                    Cardinality({r \in b..(b + n - 1) : r < 0})

\* A build without asserts, base register -1 and two vectors: not fatal, one
\* error logged, and register 0 holds the second vector of the data.
C12_Witness ==
    /\ lastOp = "SetVertexConstantBlock"
    /\ ndebug
    /\ ~aborted
    /\ args.base_register = -1
    /\ args.num_vectors = 2
    /\ <<"GL_VERTEX_PROGRAM_ARB", 0, 0, <<50, 60, 70, 80>>>> \in gl.localParameters
    /\ Cardinality(Positions("printf")) = 1

\* The upload calls of the last operation, in order.
UploadCalls ==
    SelectSeq(calls, LAMBDA c : c.fn \in {"glTexImage2D", "glCompressedTexImage2D"})

\* The channel counts and compression tokens as documented.
DocumentedChannels ==
    [TEXTURE_FORMAT_LUMINANCE |-> 1, TEXTURE_FORMAT_RGB |-> 3, TEXTURE_FORMAT_RGBA |-> 4]
DocumentedLayout ==
    [TEXTURE_FORMAT_LUMINANCE |-> "GL_LUMINANCE", TEXTURE_FORMAT_RGB |-> "GL_RGB",
     TEXTURE_FORMAT_RGBA |-> "GL_RGBA"]
DocumentedToken ==
    [TEXTURE_FORMAT_RGB_DXT1 |-> "GL_COMPRESSED_RGB_S3TC_DXT1_EXT",
     TEXTURE_FORMAT_RGBA_DXT1 |-> "GL_COMPRESSED_RGBA_S3TC_DXT1_EXT",
     TEXTURE_FORMAT_RGBA_DXT3 |-> "GL_COMPRESSED_RGBA_S3TC_DXT3_EXT",
     TEXTURE_FORMAT_RGBA_DXT5 |-> "GL_COMPRESSED_RGBA_S3TC_DXT5_EXT"]

\* The one upload SetTextureData makes for a format tag it names.
NamedFormatUpload ==
    LET f == args.texture_format IN
    /\ f \in DOMAIN DocumentedChannels =>
          /\ ~aborted
          /\ UploadCalls =
                << [fn |-> "glTexImage2D",
                    args |-> <<"GL_TEXTURE_2D", args.mip_map, DocumentedChannels[f],
                               args.width, args.height, 0, DocumentedLayout[f],
                               "GL_UNSIGNED_BYTE", "data">>] >>
    /\ f \in DOMAIN DocumentedToken =>
          /\ ~aborted
          /\ UploadCalls =
                << [fn |-> "glCompressedTexImage2D",
                    args |-> <<"GL_TEXTURE_2D", args.mip_map, DocumentedToken[f],
                               args.width, args.height, 0, args.data_size, "data">>] >>

\* C13 as stated: SetTextureData sends LUMINANCE, RGB and RGBA to the
\* uncompressed upload with channel count 1, 3 and 4, the four DXT formats to
\* the compressed upload with their compression token and the caller's data
\* size, exactly one upload each; any other format tag takes the fatal path
\* and performs no upload.
C13_DispatchOrFatal ==
    lastOp = "SetTextureData" =>
        /\ NamedFormatUpload
        /\ args.texture_format \notin (DOMAIN DocumentedChannels) \cup (DOMAIN DocumentedToken) =>
              /\ aborted
              /\ UploadCalls = << >>

\* C13 as amended: the same for the seven named tags; any other tag performs
\* no upload and leaves every texture image as it was, and takes the fatal
\* path only in a build with asserts: without them SetTextureData binds the
\* texture and returns.
C13_DispatchFatalInDebug ==
    lastOp = "SetTextureData" =>
        /\ NamedFormatUpload
        /\ args.texture_format \notin (DOMAIN DocumentedChannels) \cup (DOMAIN DocumentedToken) =>
              /\ aborted = ~ndebug
              /\ UploadCalls = << >>
              /\ gl.texImages = pre.gl.texImages
              /\ gl.boundTexture = heap.Texture[args.texture].m_Texture

\* A build without asserts: a texture that holds an RGB image is given data
\* with an unnamed format tag; the call returns and the image is still there.
C13_Witness ==
    /\ lastOp = "SetTextureData"
    /\ ndebug
    /\ ~aborted
    /\ args.texture_format = "TEXTURE_FORMAT_OTHER"
    /\ <<heap.Texture[args.texture].m_Texture, 0, "GL_RGB", 64, 32>> \in gl.texImages
    /\ Len(calls) = 2

StoredIndices == {vd.m_Streams[i].m_Index : i \in 0..(vd.m_StreamCount - 1)}

\* C15: stream i of every declaration NewVertexDeclaration produced has
\* attribute index i, so the raw indices 0..count-1 that
\* DisableVertexDeclaration disables are exactly the stored indices that
\* EnableVertexDeclaration enabled; after Disable no attribute array of the
\* declaration is enabled.
C15_DisableUndoesEnable ==
    /\ \A d \in made : \A i \in 0..(d.m_StreamCount - 1) : d.m_Streams[i].m_Index = i
    /\ vd.live => StoredIndices = 0..(vd.m_StreamCount - 1)
    /\ (lastOp = "EnableVertexDeclaration" /\ ~aborted) =>
          /\ gl.attribArrays = pre.gl.attribArrays \cup StoredIndices
          /\ {calls[i].args[1] : i \in Positions("glEnableVertexAttribArray")} = StoredIndices
    /\ (lastOp = "DisableVertexDeclaration" /\ ~aborted) =>
          /\ {calls[i].args[1] : i \in Positions("glDisableVertexAttribArray")} = StoredIndices
          /\ gl.attribArrays = pre.gl.attribArrays \ StoredIndices
          /\ gl.attribArrays \cap StoredIndices = {}

\* Disable right after Enable of a declaration of two streams: attribute
\* arrays 0 and 1 were enabled and none is any more.
C15_Witness ==
    /\ lastOp = "DisableVertexDeclaration"
    /\ ~aborted
    /\ vd.m_StreamCount = 2
    /\ pre.gl.attribArrays = {0, 1}
    /\ gl.attribArrays = {}

\* The buffer data operations and the target each works on.
DataOperations ==
    [NewVertexBuffer |-> "GL_ARRAY_BUFFER_ARB",
     SetVertexBufferData |-> "GL_ARRAY_BUFFER_ARB",
     SetVertexBufferSubData |-> "GL_ARRAY_BUFFER_ARB",
     MapVertexBuffer |-> "GL_ARRAY_BUFFER_ARB",
     UnmapVertexBuffer |-> "GL_ARRAY_BUFFER_ARB",
     NewIndexBuffer |-> "GL_ELEMENT_ARRAY_BUFFER_ARB",
     SetIndexBufferData |-> "GL_ELEMENT_ARRAY_BUFFER_ARB",
     SetIndexBufferSubData |-> "GL_ELEMENT_ARRAY_BUFFER_ARB",
     MapIndexBuffer |-> "GL_ELEMENT_ARRAY_BUFFER_ARB",
     UnmapIndexBuffer |-> "GL_ELEMENT_ARRAY_BUFFER_ARB"]

\* The buffer the last data operation worked on.
OperatedBuffer ==
    IF lastOp \in {"NewVertexBuffer", "NewIndexBuffer"} THEN ret.value ELSE args.buffer

\* The native calls of the last operation that name a buffer target.
TargetCalls ==
    SelectSeq(calls, LAMBDA c : c.fn \in BufferCalls \ {"glGenBuffersARB", "glDeleteBuffersARB"})

\* C16: every buffer data operation binds its buffer to its own target,
\* performs the operation there and leaves that target bound to 0 on return,
\* not to the buffer bound before the call, and never touches the other
\* target's binding; so the buffer EnableVertexDeclaration or
\* DrawRangeElements bound is no longer bound after a data operation on the
\* same target.
C16_DataOperationsUnbind ==
    (lastOp \in DOMAIN DataOperations /\ ~aborted) =>
        LET own == DataOperations[lastOp] IN
        /\ Len(TargetCalls) = 3
        /\ TargetCalls[1] = [fn |-> "glBindBufferARB", args |-> <<own, OperatedBuffer>>]
        /\ TargetCalls[2].fn # "glBindBufferARB"
        /\ TargetCalls[2].args[1] = own
        /\ TargetCalls[3] = [fn |-> "glBindBufferARB", args |-> <<own, 0>>]
        /\ gl.boundBuffer[own] = 0
        /\ \A other \in BufferTargets \ {own} :
              gl.boundBuffer[other] = pre.gl.boundBuffer[other]

\* Buffer 2 is bound by EnableVertexDeclaration and buffer 1 by
\* DrawRangeElements; a sub-data upload to vertex buffer 1 leaves the array
\* target bound to 0 and the element-array target bound to buffer 1.
C16_Witness ==
    /\ lastOp = "SetVertexBufferSubData"
    /\ ~aborted
    /\ args.buffer = 1
    /\ pre.gl.boundBuffer["GL_ARRAY_BUFFER_ARB"] = 2
    /\ pre.gl.boundBuffer["GL_ELEMENT_ARRAY_BUFFER_ARB"] = 1
    /\ gl.boundBuffer["GL_ARRAY_BUFFER_ARB"] = 0
    /\ gl.boundBuffer["GL_ELEMENT_ARRAY_BUFFER_ARB"] = 1

\* C17: NewVertexDeclaration accepts a stream count only when it is strictly
\* less than the capacity of the stream array: a count equal to the capacity
\* takes the fatal path although it would fit; for every accepted count no
\* slot at an index >= count is written and no write goes past the array.
C17_CountBelowCapacity ==
    lastOp = "NewVertexDeclaration" =>
        /\ Len(element) >= StreamCapacity => aborted
        /\ ~aborted =>
              /\ vd.live
              /\ DOMAIN vd.m_Streams = 0..(Len(element) - 1)
              /\ PastTheArray(vd) = {}

====
